---- MODULE Spec2Model ----
(***************************************************************************)
(* The proposal-generation pipeline of app/workflows/proposal.py and its   *)
(* driver process_proposal_sync of app/main.py.                            *)
(*                                                                         *)
(* Text.  A Python str is modelled as a sequence of lexemes; the string is *)
(* the concatenation of its lexemes and "" is <<>>.  A lexeme is either a  *)
(* single character (a backtick, a quote, a brace, a bracket, an angle     *)
(* bracket, a slash, a comma, a colon, a minus sign, a digit, a space, a   *)
(* plus sign, a newline, a tab) or a chunk: a maximal run of letters,       *)
(* digits after a letter, apostrophes and inner spaces, which holds none   *)
(* of the single characters above at its ends.  Every regular expression   *)
(* and parser of the source is translated on that representation.          *)
(***************************************************************************)
EXTENDS Integers, Sequences, FiniteSets, TLC

VARIABLES request, state, pc, calls, raised, delivered

vars == <<request, state, pc, calls, raised, delivered>>

-----------------------------------------------------------------------------
(* Generic text helpers (Python str methods).                              *)

\* Characters matched by \s and removed by str.strip().
Whitespace == {" ", "\n", "\t"}

Digits == {"0", "1", "2", "3", "4", "5", "6", "7", "8", "9"}

\* The backtick character (a string of the module cannot hold one).
Backtick == "BACKTICK"

DigitSeq == <<"0", "1", "2", "3", "4", "5", "6", "7", "8", "9">>

DigitVal(d) == (CHOOSE k \in 1..10 : DigitSeq[k] = d) - 1

Slice(t, a, b) == IF a > b THEN <<>> ELSE SubSeq(t, a, b)

RECURSIVE LStrip(_)
\* str.lstrip()
LStrip(t) ==
    IF t # <<>> /\ Head(t) \in Whitespace THEN LStrip(Tail(t)) ELSE t

RECURSIVE RStrip(_)
\* str.rstrip()
RStrip(t) ==
    IF t # <<>> /\ t[Len(t)] \in Whitespace
    THEN RStrip(SubSeq(t, 1, Len(t) - 1))
    ELSE t

\* str.strip()
Strip(t) == RStrip(LStrip(t))

RECURSIVE Join(_, _)
\* sep.join(parts) for a sequence of texts
Join(parts, sep) ==
    IF parts = <<>> THEN <<>>
    ELSE IF Len(parts) = 1 THEN parts[1]
    ELSE parts[1] \o sep \o Join(Tail(parts), sep)

RECURSIVE DigitsOf(_)
\* the decimal digits of a natural number, most significant first
DigitsOf(n) ==
    IF n < 10 THEN <<DigitSeq[n + 1]>>
    ELSE DigitsOf(n \div 10) \o <<DigitSeq[(n % 10) + 1]>>

\* str(n) of an int, as used by an f-string "{n}"
FormatInt(n) == IF n < 0 THEN <<"-">> \o DigitsOf(-n) ELSE DigitsOf(n)

RECURSIVE GroupThousands(_)
\* the digits of a natural number with "," between groups of three
GroupThousands(n) ==
    IF n < 1000 THEN DigitsOf(n)
    ELSE LET low == n % 1000
             pad == IF low < 10 THEN <<"0", "0">>
                    ELSE IF low < 100 THEN <<"0">> ELSE <<>>
         IN  GroupThousands(n \div 1000) \o <<",">> \o pad \o DigitsOf(low)

\* format(n, ",") of an int, as used by an f-string "{n:,}"
FormatThousands(n) ==
    IF n < 0 THEN <<"-">> \o GroupThousands(-n) ELSE GroupThousands(n)

-----------------------------------------------------------------------------
(* re.sub of the code-fence patterns.                                      *)

IsFenceAt(t, i) ==
    /\ i + 2 <= Len(t)
    /\ t[i] = Backtick /\ t[i + 1] = Backtick /\ t[i + 2] = Backtick

RECURSIVE SubFenceWordFrom(_, _, _)
SubFenceWordFrom(t, word, i) ==
    IF i > Len(t) THEN <<>>
    ELSE IF IsFenceAt(t, i) /\ i + 3 <= Len(t) /\ t[i + 3] = word
         THEN LET j == IF i + 4 <= Len(t) /\ t[i + 4] = "\n"
                       THEN i + 5 ELSE i + 4
              IN  SubFenceWordFrom(t, word, j)
         ELSE <<t[i]>> \o SubFenceWordFrom(t, word, i + 1)

\* re.sub of three backticks, the word and an optional newline by '':
\* leftmost, non-overlapping matches removed
SubFenceWord(t, word) == SubFenceWordFrom(t, word, 1)

RECURSIVE SubFenceFrom(_, _)
SubFenceFrom(t, i) ==
    IF i > Len(t) THEN <<>>
    ELSE IF IsFenceAt(t, i)
         THEN LET j == IF i + 3 <= Len(t) /\ t[i + 3] = "\n"
                       THEN i + 4 ELSE i + 3
              IN  SubFenceFrom(t, j)
         ELSE <<t[i]>> \o SubFenceFrom(t, i + 1)

\* A variant of SubFence that removes no fence; C19 does not hold of it.
SubFence_kept(t) == t

\* re.sub of three backticks and an optional newline by ''
SubFence(t) == SubFenceFrom(t, 1)

-----------------------------------------------------------------------------
(* json.loads on lexemes.  A JSON value is a record [t, v]: t is "str" (v  *)
(* a text), "int" (v an integer), "bool", "null", "list" (v a sequence of  *)
(* values) or "dict" (v a function from key texts to values; a repeated    *)
(* key keeps its last value, as Python's dict does).  The texts parsed     *)
(* hold no backslash, fraction or exponent.                                *)

JStr(s) == [t |-> "str", v |-> s]
JInt(n) == [t |-> "int", v |-> n]
JBool(b) == [t |-> "bool", v |-> b]
JNull == [t |-> "null", v |-> 0]
JList(items) == [t |-> "list", v |-> items]
JDict(f) == [t |-> "dict", v |-> f]

ParseFail == [ok |-> FALSE, val |-> JNull, next |-> 0]
ParseOk(val, next) == [ok |-> TRUE, val |-> val, next |-> next]

RECURSIVE SkipWs(_, _)
\* the first index >= i that holds no JSON whitespace (Len(t) + 1 if none)
SkipWs(t, i) ==
    IF i <= Len(t) /\ t[i] \in Whitespace THEN SkipWs(t, i + 1) ELSE i

RECURSIVE DigitRunEnd(_, _)
\* the index after the run of digits that starts at i
DigitRunEnd(t, i) ==
    IF i <= Len(t) /\ t[i] \in Digits THEN DigitRunEnd(t, i + 1) ELSE i

RECURSIVE DigitsValue(_)
DigitsValue(ds) ==
    IF ds = <<>> THEN 0
    ELSE 10 * DigitsValue(SubSeq(ds, 1, Len(ds) - 1)) + DigitVal(ds[Len(ds)])

\* a JSON number at i: -? (0 | [1-9][0-9]*)
ParseNumber(t, i) ==
    LET neg == t[i] = "-"
        s == IF neg THEN i + 1 ELSE i
    IN  IF s > Len(t) \/ t[s] \notin Digits THEN ParseFail
        ELSE LET e == IF t[s] = "0" THEN s + 1 ELSE DigitRunEnd(t, s)
                 n == DigitsValue(SubSeq(t, s, e - 1))
             IN  ParseOk(JInt(IF neg THEN -n ELSE n), e)

\* a JSON string at i (t[i] is the opening quote): up to the next quote, with
\* no control character inside
ParseString(t, i) ==
    LET closing == {j \in (i + 1)..Len(t) : t[j] = "\""}
    IN  IF closing = {} THEN ParseFail
        ELSE LET j == CHOOSE k \in closing : \A m \in closing : k <= m
                 body == Slice(t, i + 1, j - 1)
             IN  IF \E k \in 1..Len(body) : body[k] \in {"\n", "\t"}
                 THEN ParseFail
                 ELSE ParseOk(JStr(body), j + 1)

RECURSIVE ParseValue(_, _)
RECURSIVE ParseElements(_, _, _)
RECURSIVE ParseMembers(_, _, _)

\* the elements of an array from index i (no whitespace at i), after acc
ParseElements(t, i, acc) ==
    LET r == ParseValue(t, i)
    IN  IF ~r.ok THEN ParseFail
        ELSE LET k == SkipWs(t, r.next)
                 items == Append(acc, r.val)
             IN  IF k > Len(t) THEN ParseFail
                 ELSE IF t[k] = "]" THEN ParseOk(JList(items), k + 1)
                 ELSE IF t[k] = ","
                      THEN ParseElements(t, SkipWs(t, k + 1), items)
                 ELSE ParseFail

\* the members of an object from index i (no whitespace at i), after acc
ParseMembers(t, i, acc) ==
    IF i > Len(t) \/ t[i] # "\"" THEN ParseFail
    ELSE LET key == ParseString(t, i)
         IN  IF ~key.ok THEN ParseFail
             ELSE LET c == SkipWs(t, key.next)
                  IN  IF c > Len(t) \/ t[c] # ":" THEN ParseFail
                      ELSE LET r == ParseValue(t, SkipWs(t, c + 1))
                           IN  IF ~r.ok THEN ParseFail
                               ELSE LET k == SkipWs(t, r.next)
                                        f == (key.val.v :> r.val) @@ acc
                                    IN  IF k > Len(t) THEN ParseFail
                                        ELSE IF t[k] = "}"
                                             THEN ParseOk(JDict(f), k + 1)
                                        ELSE IF t[k] = ","
                                             THEN ParseMembers(t, SkipWs(t, k + 1), f)
                                        ELSE ParseFail

\* a JSON value at index i (no whitespace at i)
ParseValue(t, i) ==
    IF i > Len(t) THEN ParseFail
    ELSE IF t[i] = "\"" THEN ParseString(t, i)
    ELSE IF t[i] = "-" \/ t[i] \in Digits THEN ParseNumber(t, i)
    ELSE IF t[i] = "null" THEN ParseOk(JNull, i + 1)
    ELSE IF t[i] = "true" THEN ParseOk(JBool(TRUE), i + 1)
    ELSE IF t[i] = "false" THEN ParseOk(JBool(FALSE), i + 1)
    ELSE IF t[i] = "["
         THEN LET j == SkipWs(t, i + 1)
              IN  IF j <= Len(t) /\ t[j] = "]" THEN ParseOk(JList(<<>>), j + 1)
                  ELSE ParseElements(t, j, <<>>)
    ELSE IF t[i] = "{"
         THEN LET j == SkipWs(t, i + 1)
              IN  IF j <= Len(t) /\ t[j] = "}" THEN ParseOk(JDict(<<>>), j + 1)
                  ELSE ParseMembers(t, j, <<>>)
    ELSE ParseFail

\* json.loads(t): [ok, val]; ok is FALSE where json.loads raises
JsonLoads(t) ==
    LET r == ParseValue(t, SkipWs(t, 1))
    IN  IF r.ok /\ SkipWs(t, r.next) > Len(t)
        THEN [ok |-> TRUE, val |-> r.val]
        ELSE [ok |-> FALSE, val |-> JNull]

-----------------------------------------------------------------------------
(* Structured extractors: the parsing inside generate_scope and            *)
(* estimate_project.                                                       *)

\* The default scope of generate_scope's except branch.
DefaultScope(lang) ==
    IF lang = "en"
    THEN <<JStr(<<"Web Development">>), JStr(<<"UI", "/", "UX Design">>),
           JStr(<<"Deployment">>)>>
    ELSE <<JStr(<<"Pengembangan Web">>), JStr(<<"Desain UI", "/", "UX">>),
           JStr(<<"Deployment">>)>>

\* The text json.loads is given: response.content.strip() with the fence
\* markers removed.
ScopeContent(text) == SubFence(SubFenceWord(Strip(text), "json"))

\* A variant of ScopeOfParsed that wraps the text whatever the value is; C6
\* does not hold of it.
ScopeOfParsed_wrap(val, content) == <<JStr(content)>>

\* What generate_scope stores for a parsed value: the list itself, or the
\* one-item list of the text when the value is no list.
ScopeOfParsed(val, content) ==
    IF val.t = "list" THEN val.v ELSE <<JStr(content)>>

\* The scope generate_scope stores for the model text of a successful call.
ParseScope(text, lang) ==
    LET content == ScopeContent(text)
        parsed == JsonLoads(content)
    IN  IF parsed.ok THEN ScopeOfParsed(parsed.val, content)
        ELSE DefaultScope(lang)

\* The cap of the fallback duration.
MaxFallbackDays == 30

\* The days the fallback counts for each scope item.
DaysPerScopeItem == 5

Min(a, b) == IF a <= b THEN a ELSE b

ProposalEstimation(duration_days, price) ==
    [duration_days |-> duration_days, price |-> price]

\* The fallback of estimate_project (both the else branch and the except
\* branch compute it).
FallbackEstimation(scope_count, min_price) ==
    ProposalEstimation(Min(scope_count * DaysPerScopeItem, MaxFallbackDays),
                       min_price)

\* re.search(r'\{[^}]+\}', t): [found, text]; the match runs from the first
\* "{" that is followed by a character other than "}" and, later, by a "}",
\* to the first such "}".
SearchObject(t) ==
    LET closeAfter(i) == {j \in (i + 2)..Len(t) : t[j] = "}"}
        starts == {i \in 1..Len(t) :
                      /\ t[i] = "{"
                      /\ i + 1 <= Len(t) /\ t[i + 1] # "}"
                      /\ closeAfter(i) # {}}
    IN  IF starts = {} THEN [found |-> FALSE, text |-> <<>>]
        ELSE LET i == CHOOSE k \in starts : \A m \in starts : k <= m
                 j == CHOOSE k \in closeAfter(i) :
                          \A m \in closeAfter(i) : k <= m
             IN  [found |-> TRUE, text |-> SubSeq(t, i, j)]

\* int(s) of a str: surrounding whitespace dropped, an optional sign, digits
IntOfText(s) ==
    LET b == Strip(s)
        signed == b # <<>> /\ b[1] \in {"-", "+"}
        ds == IF signed THEN Tail(b) ELSE b
    IN  IF ds # <<>> /\ \A k \in 1..Len(ds) : ds[k] \in Digits
        THEN [ok |-> TRUE,
              val |-> IF signed /\ b[1] = "-" THEN -DigitsValue(ds)
                      ELSE DigitsValue(ds)]
        ELSE [ok |-> FALSE, val |-> 0]

\* int(x) of a parsed JSON value: [ok, val]; ok is FALSE where int raises
IntOf(x) ==
    IF x.t = "int" THEN [ok |-> TRUE, val |-> x.v]
    ELSE IF x.t = "bool" THEN [ok |-> TRUE, val |-> IF x.v THEN 1 ELSE 0]
    ELSE IF x.t = "str" THEN IntOfText(x.v)
    ELSE [ok |-> FALSE, val |-> 0]

KeyDuration == <<"duration_days">>
KeyPrice == <<"price">>

\* The two subscripts and int() calls on the parsed object: [ok, val]; ok is
\* FALSE where one of them raises (a key is missing, a value is no number).
EstimationOfObject(data) ==
    IF data.t # "dict" \/ KeyDuration \notin DOMAIN data.v
       \/ KeyPrice \notin DOMAIN data.v
    THEN [ok |-> FALSE, val |-> ProposalEstimation(0, 0)]
    ELSE LET d == IntOf(data.v[KeyDuration])
             p == IntOf(data.v[KeyPrice])
         IN  IF d.ok /\ p.ok
             THEN [ok |-> TRUE, val |-> ProposalEstimation(d.val, p.val)]
             ELSE [ok |-> FALSE, val |-> ProposalEstimation(0, 0)]

\* A variant of ParseEstimation that keeps the minimum price whatever the
\* object holds; C7 does not hold of it.
ParseEstimation_min_price(text, scope_count, min_price) ==
    LET m == SearchObject(text)
    IN  IF ~m.found THEN FallbackEstimation(scope_count, min_price)
        ELSE LET parsed == JsonLoads(m.text)
                 est == EstimationOfObject(parsed.val)
             IN  IF parsed.ok /\ est.ok
                 THEN ProposalEstimation(est.val.duration_days, min_price)
                 ELSE FallbackEstimation(scope_count, min_price)

\* The estimation estimate_project stores for the model text of a successful
\* call.
ParseEstimation(text, scope_count, min_price) ==
    LET m == SearchObject(text)
    IN  IF ~m.found THEN FallbackEstimation(scope_count, min_price)
        ELSE LET parsed == JsonLoads(m.text)
                 est == EstimationOfObject(parsed.val)
             IN  IF parsed.ok /\ est.ok THEN est.val
                 ELSE FallbackEstimation(scope_count, min_price)

-----------------------------------------------------------------------------
(* Content Normalizer: clean_html.                                         *)

\* The tag names of the first-tag pattern, which is matched ignoring case. A
\* chunk that follows "<" begins with one of them only if it is one of them.
TagNames ==
    {"h1", "h2", "h3", "h4", "h5", "h6", "p", "ul", "ol", "div", "section",
     "article", "blockquote", "table", "strong", "em", "a", "span", "br",
     "H1", "H2", "H3", "H4", "H5", "H6", "P", "UL", "OL", "DIV", "SECTION",
     "ARTICLE", "BLOCKQUOTE", "TABLE", "STRONG", "EM", "A", "SPAN", "BR"}

\* The chunks of the modelled texts that hold one of the markers 'here is',
\* "here's", 'sure', 'certainly', 'below is', 'following is', 'berikut',
\* 'adalah', 'ini' when lower-cased.
MarkerChunks ==
    {"Here is the result", "here is", "Here's the proposal", "Sure",
     "Certainly", "Below is the section", "The following is the section",
     "Berikut", "Berikut adalah hasilnya", "adalah", "ini"}

\* The chunks that end with 'output' or 'html' when lower-cased: with a colon
\* after them they hold the marker 'output:' or 'html:'.
ColonMarkerChunks == {"output", "Output", "html", "HTML"}

\* The chunks of fewer than four characters, with their length.
ShortChunkLen ==
    [c \in {"p", "a", "P", "A", "B", "x", "h1", "h2", "h3", "h4", "h5", "h6",
            "ul", "ol", "em", "br", "li", "b", "Hi", "ok", "UI", "div", "id",
            "en", "ini", "Yes"} |->
        IF c \in {"p", "a", "P", "A", "B", "x", "b"} THEN 1
        ELSE IF c \in {"div", "ini", "Yes"} THEN 3 ELSE 2]

SingleChars ==
    Whitespace \union Digits \union
    {Backtick, "\"", "{", "}", "[", "]", "<", ">", "/", ",", ":", "-", "+"}

\* len() of one lexeme, counted up to four: a chunk that is not listed as
\* short has at least four characters.
LexLen(x) ==
    IF x \in SingleChars THEN 1
    ELSE IF x \in DOMAIN ShortChunkLen THEN ShortChunkLen[x]
    ELSE 4

RECURSIVE TextLenUpTo4(_)
\* min(len(t), 4)
TextLenUpTo4(t) ==
    IF t = <<>> THEN 0 ELSE Min(4, LexLen(Head(t)) + TextLenUpTo4(Tail(t)))

\* any(marker in preamble.lower() for marker in conversational_markers)
IsConversational(preamble) ==
    \E k \in 1..Len(preamble) :
        \/ preamble[k] \in MarkerChunks
        \/ /\ preamble[k] \in ColonMarkerChunks
           /\ k + 1 <= Len(preamble) /\ preamble[k + 1] = ":"

\* re.search of the first-tag pattern: the index of the first "<" that a tag
\* name follows, 0 if there is none
FirstTag(t) ==
    LET hits == {i \in 1..Len(t) :
                    t[i] = "<" /\ i + 1 <= Len(t) /\ t[i + 1] \in TagNames}
    IN  IF hits = {} THEN 0
        ELSE CHOOSE i \in hits : \A j \in hits : i <= j

RECURSIVE SplitLines(_)
\* t.split('\n'): the sequence of the lines of t
SplitLines(t) ==
    LET nl == {i \in 1..Len(t) : t[i] = "\n"}
    IN  IF nl = {} THEN <<t>>
        ELSE LET i == CHOOSE k \in nl : \A m \in nl : k <= m
             IN  <<Slice(t, 1, i - 1)>> \o SplitLines(Slice(t, i + 1, Len(t)))

OpenP == <<"<", "p", ">">>
CloseP == <<"<", "/", "p", ">">>

RECURSIVE WrapLines(_)
\* the loop of the no-tag branch: each non-blank line, stripped, in <p></p>
WrapLines(lines) ==
    IF lines = <<>> THEN <<>>
    ELSE LET line == Strip(Head(lines))
         IN  IF line # <<>>
             THEN <<OpenP \o line \o CloseP>> \o WrapLines(Tail(lines))
             ELSE WrapLines(Tail(lines))

\* The first "<" at or after i, 0 if there is none.
NextOpen(t, i) ==
    LET opens == {j \in i..Len(t) : t[j] = "<"}
    IN  IF opens = {} THEN 0
        ELSE CHOOSE j \in opens : \A m \in opens : j <= m

\* A match of the clean-up pattern
\*     (?<=>)\s*\n\s*([^<\n]+)\s*\n\s*(?=<)
\* starting at i: [found, stop, group].  The match runs to the next "<" (at
\* stop).  It exists when ">" precedes i and the text between, split into
\* lines, has a blank first and last line and, between them, either exactly
\* one line that is not blank (the group, stripped) or only blank lines, one
\* of them not empty (the group is whitespace and strips to nothing).
OrphanMatch(t, i) ==
    LET e == NextOpen(t, i)
        none == [found |-> FALSE, stop |-> 0, group |-> <<>>]
    IN  IF i <= 1 \/ t[i - 1] # ">" \/ e = 0 THEN none
        ELSE LET lines == SplitLines(Slice(t, i, e - 1))
                 n == Len(lines)
                 middle == 2..(n - 1)
                 text == {g \in middle : Strip(lines[g]) # <<>>}
             IN  IF /\ n >= 3
                    /\ Strip(lines[1]) = <<>> /\ Strip(lines[n]) = <<>>
                    /\ Cardinality(text) <= 1
                    /\ (text = {} => \E g \in middle : lines[g] # <<>>)
                 THEN [found |-> TRUE, stop |-> e,
                       group |-> IF text = {} THEN <<>>
                                 ELSE Strip(lines[CHOOSE g \in text : TRUE])]
                 ELSE none

RECURSIVE WrapOrphansFrom(_, _)
WrapOrphansFrom(t, i) ==
    IF i > Len(t) THEN <<>>
    ELSE LET m == OrphanMatch(t, i)
         IN  IF m.found
             THEN <<"\n">> \o OpenP \o m.group \o CloseP \o <<"\n">>
                      \o WrapOrphansFrom(t, m.stop)
             ELSE <<t[i]>> \o WrapOrphansFrom(t, i + 1)

\* re.sub of the clean-up pattern: each match becomes its group, stripped, in
\* <p></p> between two newlines
WrapOrphans(t) == WrapOrphansFrom(t, 1)

\* A variant of WithPreamble that keeps every preamble of more than three
\* characters, conversational or not; C17 does not hold of it.
WithPreamble_chatter(content, first) ==
    LET preamble == Strip(Slice(content, 1, first - 1))
        html_content == Slice(content, first, Len(content))
    IN  IF preamble # <<>> /\ TextLenUpTo4(preamble) > 3
        THEN OpenP \o preamble \o CloseP \o <<"\n">> \o html_content
        ELSE html_content

\* The preamble branch: the text from the first tag on, after the preamble in
\* <p></p> if the preamble is kept.
WithPreamble(content, first) ==
    LET preamble == Strip(Slice(content, 1, first - 1))
        html_content == Slice(content, first, Len(content))
    IN  IF preamble # <<>> /\ TextLenUpTo4(preamble) > 3
           /\ ~IsConversational(preamble)
        THEN OpenP \o preamble \o CloseP \o <<"\n">> \o html_content
        ELSE html_content

clean_html(raw) ==
    LET content == Strip(SubFence(SubFenceWord(raw, "html")))
        first == FirstTag(content)
        body == IF first # 0 THEN WithPreamble(content, first)
                ELSE Join(WrapLines(SplitLines(content)), <<"\n">>)
    IN  Strip(WrapOrphans(body))

-----------------------------------------------------------------------------
(* The work record and the stage functions.  The record is the dict that   *)
(* the graph threads through the nodes: a function from the keys present   *)
(* to their values.  The key "sections" is absent until init_sections.     *)

\* Python's None, written as a text that no str of the model equals.
None == <<"None">>

\* bool(x) of an Optional[str]
Truthy(x) == x # None /\ x # <<>>

LANGUAGE_CONFIGS ==
    [en |-> [needs_title |-> "Understanding Your Needs",
             approach_title |-> "Proposed Approach",
             strengths_title |-> "Why Work With Me",
             timeline_title |-> "Project Timeline",
             pricing_title |-> "Investment",
             credentials_title |-> "Relevant Experience",
             terms_title |-> "Working Together"],
     id |-> [needs_title |-> "Pemahaman Kebutuhan Anda",
             approach_title |-> "Pendekatan yang Diusulkan",
             strengths_title |-> "Mengapa Bekerja Dengan Saya",
             timeline_title |-> "Timeline Proyek",
             pricing_title |-> "Investasi",
             credentials_title |-> "Pengalaman Relevan",
             terms_title |-> "Cara Kerja Kami"]]

\* A gateway call's outcome: the model text (ok), or str(e) of the exception.
Response(ok, text) == [ok |-> ok, text |-> text]

\* What a node returns: the record, whether it called the gateway, and the
\* exception that escaped it ("none" if it returned).
Returned(st, called) == [state |-> st, called |-> called, exc |-> "none"]
Raised(st, called, exc) == [state |-> st, called |-> called, exc |-> exc]

\* initial_state of process_proposal_sync
InitialState ==
    [brief_analysis |-> <<>>,
     scope |-> <<>>,
     estimation |-> ProposalEstimation(0, 0),
     proposal_html |-> <<>>,
     error |-> None]

\* state[key] = value on the dict
SetKey(st, key, value) ==
    [k \in DOMAIN st \union {key} |-> IF k = key THEN value ELSE st[k]]

\* The message analyze_brief stores in the error field.
AnalyzeError(message) == <<"Failed to analyze brief", ":", " ">> \o message

\* A variant of analyze_brief whose except branch leaves the error field
\* unset; C2 does not hold of it.
analyze_brief_silent(st, req, resp) ==
    IF resp.ok
    THEN Returned(SetKey(st, "brief_analysis", resp.text), TRUE)
    ELSE Returned(st, TRUE)

\* A variant of analyze_brief whose except branch also stores the message of
\* the exception as the brief analysis; C22 does not hold of it.
analyze_brief_message(st, req, resp) ==
    IF resp.ok
    THEN Returned(SetKey(st, "brief_analysis", resp.text), TRUE)
    ELSE Returned(SetKey(SetKey(st, "brief_analysis", resp.text),
                         "error", AnalyzeError(resp.text)), TRUE)

analyze_brief(st, req, resp) ==
    IF resp.ok
    THEN Returned(SetKey(st, "brief_analysis", resp.text), TRUE)
    ELSE Returned(SetKey(st, "error", AnalyzeError(resp.text)), TRUE)

\* A variant of generate_scope without the guard on the error field; C21
\* does not hold of it.
generate_scope_unguarded(st, req, resp) ==
    IF resp.ok
    THEN Returned(SetKey(st, "scope", ParseScope(resp.text, req.language)),
                  TRUE)
    ELSE Returned(SetKey(st, "scope", DefaultScope(req.language)), TRUE)

generate_scope(st, req, resp) ==
    IF Truthy(st.error) THEN Returned(st, FALSE)
    ELSE IF resp.ok
         THEN Returned(SetKey(st, "scope", ParseScope(resp.text, req.language)),
                       TRUE)
         ELSE Returned(SetKey(st, "scope", DefaultScope(req.language)), TRUE)

\* ', '.join(scope) raises TypeError when an item is no str.
JoinRaises(scope) == \E k \in 1..Len(scope) : scope[k].t # "str"

estimate_project(st, req, resp) ==
    IF Truthy(st.error) THEN Returned(st, FALSE)
    ELSE IF JoinRaises(st.scope) THEN Raised(st, FALSE, "TypeError")
    ELSE LET scope_count == Len(st.scope)
             min_price == req.freelancer_profile.min_price
         IN  IF resp.ok
             THEN Returned(SetKey(st, "estimation",
                       ParseEstimation(resp.text, scope_count, min_price)), TRUE)
             ELSE Returned(SetKey(st, "estimation",
                       FallbackEstimation(scope_count, min_price)), TRUE)

\* A variant of init_sections that also starts the document with an empty
\* paragraph; C28 does not hold of it.
init_sections_document(st, req, resp) ==
    Returned(SetKey(SetKey(st, "sections", <<>>), "proposal_html",
                    <<"<", "p", ">", "<", "/", "p", ">">>), FALSE)

init_sections(st, req, resp) == Returned(SetKey(st, "sections", <<>>), FALSE)

H3(title) == <<"<", "h3", ">", title, "<", "/", "h3", ">">>
Para(text) == OpenP \o text \o CloseP

\* The fragment a section generator stores in its except branch.
Fallback(key, st, req) ==
    LET config == LANGUAGE_CONFIGS[req.language]
    IN  CASE key = "introduction" ->
               Para(<<"Hello", ",", " ",
                      "I'm a professional web developer ready to help with your project.">>)
          [] key = "needs" ->
               H3(config.needs_title)
                   \o Para(<<"I understand your project requirements.">>)
          [] key = "approach" ->
               H3(config.approach_title)
                   \o Para(<<"I will follow a structured development process.">>)
          [] key = "strengths" ->
               H3(config.strengths_title)
                   \o <<"<", "ul", ">", "<", "li", ">", "Technical expertise",
                        "<", "/", "li", ">", "<", "li", ">",
                        "Strong communication", "<", "/", "li", ">",
                        "<", "/", "ul", ">">>
          [] key = "timeline" ->
               H3(config.timeline_title)
                   \o Para(FormatInt(st.estimation.duration_days)
                           \o <<" ", "days">>)
          [] key = "pricing" ->
               H3(config.pricing_title)
                   \o Para(<<req.freelancer_profile.currency, " ">>
                           \o FormatThousands(st.estimation.price))
          [] key = "credentials" ->
               H3(config.credentials_title)
                   \o <<"<", "ul", ">", "<", "li", ">", "Professional tools",
                        "<", "/", "li", ">", "<", "/", "ul", ">">>
          [] key = "terms" ->
               H3(config.terms_title)
                   \o Para(<<"Clear communication and delivery.">>)

\* The sections dict is the sequence of its items [key, value] in insertion
\* order, as a Python dict keeps them; no key occurs twice.
DictKeys(d) == {d[i].key : i \in 1..Len(d)}

\* d[key] of a key the dict holds
DictGet(d, key) == d[CHOOSE i \in 1..Len(d) : d[i].key = key].value

\* d[key] = value: the value of a key the dict holds is replaced in place, a
\* new key is added at the end.
DictSet(d, key, value) ==
    IF key \in DictKeys(d)
    THEN [i \in 1..Len(d) |->
             IF d[i].key = key THEN [key |-> key, value |-> value] ELSE d[i]]
    ELSE Append(d, [key |-> key, value |-> value])

\* state['sections'][key] = content
\* A variant of SetSection that starts a new mapping with the key; C27 does
\* not hold of it.
SetSection_fresh(st, key, content) ==
    SetKey(st, "sections", <<[key |-> key, value |-> content]>>)

SetSection(st, key, content) ==
    SetKey(st, "sections", DictSet(st.sections, key, content))

\* The body shared by the eight generators that call the gateway. uses_config
\* tells whether the generator reads LANGUAGE_CONFIGS[lang] before its try.
SectionStage(key, uses_config, st, req, resp) ==
    IF Truthy(st.error) THEN Returned(st, FALSE)
    ELSE IF uses_config /\ req.language \notin DOMAIN LANGUAGE_CONFIGS
         THEN Raised(st, FALSE, "KeyError")
    ELSE IF "sections" \notin DOMAIN st THEN Raised(st, TRUE, "KeyError")
    ELSE IF resp.ok
         THEN Returned(SetSection(st, key, clean_html(resp.text)), TRUE)
         ELSE Returned(SetSection(st, key, Fallback(key, st, req)), TRUE)

generate_introduction(st, req, resp) ==
    SectionStage("introduction", FALSE, st, req, resp)

generate_needs_assessment(st, req, resp) ==
    SectionStage("needs", TRUE, st, req, resp)

generate_approach(st, req, resp) ==
    SectionStage("approach", TRUE, st, req, resp)

generate_strengths(st, req, resp) ==
    SectionStage("strengths", TRUE, st, req, resp)

generate_timeline(st, req, resp) ==
    SectionStage("timeline", TRUE, st, req, resp)

generate_pricing(st, req, resp) ==
    SectionStage("pricing", TRUE, st, req, resp)

generate_credentials(st, req, resp) ==
    SectionStage("credentials", TRUE, st, req, resp)

\* A variant of generate_social_proof that stores a testimonial; C25 does
\* not hold of it.
generate_social_proof_testimonial(st, req, resp) ==
    IF Truthy(st.error) THEN Returned(st, FALSE)
    ELSE IF "sections" \notin DOMAIN st THEN Raised(st, FALSE, "KeyError")
    ELSE Returned(SetSection(st, "social_proof",
                             Para(<<"A client says", ":", " ", "great work">>)),
                  FALSE)

generate_social_proof(st, req, resp) ==
    IF Truthy(st.error) THEN Returned(st, FALSE)
    ELSE IF "sections" \notin DOMAIN st THEN Raised(st, FALSE, "KeyError")
    ELSE Returned(SetSection(st, "social_proof", <<>>), FALSE)

generate_terms(st, req, resp) ==
    SectionStage("terms", TRUE, st, req, resp)

\* The order in which assemble_proposal reads the sections.
CanonicalOrder ==
    <<"introduction", "needs", "approach", "strengths", "timeline", "pricing",
      "credentials", "social_proof", "terms">>

\* A variant of SectionGet that gives a placeholder for a key the dict does
\* not hold; C11 does not hold of it.
SectionGet_placeholder(sections, key) ==
    IF key \in DictKeys(sections) THEN DictGet(sections, key)
    ELSE <<"<", "p", ">", "<", "/", "p", ">">>

\* sections.get(key, '')
SectionGet(sections, key) ==
    IF key \in DictKeys(sections) THEN DictGet(sections, key) ELSE <<>>

RECURSIVE FilterNonEmpty(_)
\* filter(None, parts)
FilterNonEmpty(parts) ==
    IF parts = <<>> THEN <<>>
    ELSE IF Head(parts) # <<>>
         THEN <<Head(parts)>> \o FilterNonEmpty(Tail(parts))
         ELSE FilterNonEmpty(Tail(parts))

\* A variant of AssembleHtml that reads the dict in its own order, as
\* sections.values() gives it; C12 does not hold of it.
AssembleHtml_values(sections) ==
    LET html_parts == [k \in 1..Len(sections) |-> sections[k].value]
    IN  Join(FilterNonEmpty(html_parts), <<"\n", "\n">>)

\* '\n\n'.join(filter(None, html_parts))
AssembleHtml(sections) ==
    LET html_parts == [k \in 1..Len(CanonicalOrder) |->
                          SectionGet(sections, CanonicalOrder[k])]
    IN  Join(FilterNonEmpty(html_parts), <<"\n", "\n">>)

assemble_proposal(st, req, resp) ==
    IF Truthy(st.error) THEN Returned(st, FALSE)
    ELSE IF "sections" \notin DOMAIN st THEN Raised(st, FALSE, "KeyError")
    ELSE Returned(SetKey(st, "proposal_html", AssembleHtml(st.sections)), FALSE)

-----------------------------------------------------------------------------
(* The graph of create_proposal_workflow and process_proposal_sync.        *)

\* A variant of NodeOrder for a graph whose edge to init_sections leaves
\* generate_introduction; C31 does not hold of it.
NodeOrder_late ==
    <<"analyze_brief", "generate_scope", "estimate_project",
      "generate_introduction", "init_sections", "generate_needs_assessment",
      "generate_approach", "generate_strengths", "generate_timeline",
      "generate_pricing", "generate_credentials", "generate_social_proof",
      "generate_terms", "assemble_proposal">>

\* The nodes in the order of the graph's edges, from the entry point to END.
NodeOrder ==
    <<"analyze_brief", "generate_scope", "estimate_project", "init_sections",
      "generate_introduction", "generate_needs_assessment", "generate_approach",
      "generate_strengths", "generate_timeline", "generate_pricing",
      "generate_credentials", "generate_social_proof", "generate_terms",
      "assemble_proposal">>

NodeIndex(node) == CHOOSE k \in 1..Len(NodeOrder) : NodeOrder[k] = node

\* A variant of AfterNode for a graph with an edge from generate_terms back
\* to generate_social_proof; C30 does not hold of it.
AfterNode_cycle(node) ==
    IF node = "generate_terms" THEN "generate_social_proof"
    ELSE IF NodeIndex(node) < Len(NodeOrder) THEN NodeOrder[NodeIndex(node) + 1]
    ELSE "respond"

\* Where control goes after a node returns: the next node, or, after the
\* edge to END, the response preparation of process_proposal_sync.
AfterNode(node) ==
    IF NodeIndex(node) < Len(NodeOrder) THEN NodeOrder[NodeIndex(node) + 1]
    ELSE "respond"

\* ProposalResponse of the failed branch and of the except branch.
FailedResponse(error) ==
    [status |-> "failed", scope |-> <<>>,
     estimation |-> ProposalEstimation(0, 0), content |-> <<>>,
     error |-> error]

\* ProposalResponse of the completed branch.
CompletedResponse(final_state) ==
    [status |-> "completed", scope |-> final_state.scope,
     estimation |-> final_state.estimation,
     content |-> final_state.proposal_html, error |-> None]

\* The response process_proposal_sync prepares from the final state.
PrepareResponse(final_state) ==
    IF Truthy(final_state.error) THEN FailedResponse(final_state.error)
    ELSE CompletedResponse(final_state)

\* ProposalResponse.scope is a List[str]: building the completed response
\* raises a validation error when an item of the scope is no str.
ResponseRaises(final_state) ==
    ~Truthy(final_state.error)
        /\ \E k \in 1..Len(final_state.scope) : final_state.scope[k].t # "str"

\* What send_callback_sync does with a response: "sent" (it returns True),
\* "http_error" (httpx.HTTPError is caught, it returns False) or "raise"
\* (an exception that is no httpx.HTTPError escapes it).
CallbackOutcomes == {"sent", "http_error", "raise"}

-----------------------------------------------------------------------------
(* Inputs.                                                                 *)

\* The language codes of the requests: the two of LANGUAGE_CONFIGS, and one
\* that it does not hold.
Languages == {"en", "id", "fr"}

\* The minimum prices of the requests are 1..MaxMinPrice.
MaxMinPrice == 2

Requests ==
    [language : Languages,
     freelancer_profile : [min_price : 1..MaxMinPrice, currency : {"USD"}]]

\* str(e) of a gateway exception.
GatewayError == <<"gateway error">>

Quoted(chunk) == <<"\"", chunk, "\"">>
Fence == <<Backtick, Backtick, Backtick>>

\* The responses of the gateway to a call: a failure, or one of the texts.
Responses(texts) ==
    {Response(FALSE, GatewayError)} \union {Response(TRUE, t) : t \in texts}

\* The model text of the brief-analysis call, with white space around it.
AnalysisTexts == {<<" ", "The client needs a web shop", "\n">>}

\* Model texts of the scope call: a fenced list of two titles, text that is
\* no JSON, the empty list, a JSON string, and a list that holds a number.
ScopeTexts ==
    {Fence \o <<"json", "\n", "[">> \o Quoted("A") \o <<",">> \o Quoted("B")
         \o <<"]", "\n">> \o Fence,
     <<"not json">>,
     <<"[", "]">>,
     Quoted("A"),
     <<"[", "1", "]">>}

Member(key, value) == Quoted(key) \o <<":", " ">> \o value

ObjectText(members) == <<"{">> \o Join(members, <<",", " ">>) \o <<"}">>

\* Model texts of the estimation call: an object inside free text, an object
\* with a zero and a negative number, and text without an object.
EstimationTexts ==
    {<<"Estimate", ":", " ">>
         \o ObjectText(<<Member("duration_days", <<"1", "4">>),
                         Member("price", <<"5", "0", "0">>)>>)
         \o <<" ", "as requested">>,
     ObjectText(<<Member("duration_days", <<"0">>),
                  Member("price", <<"-", "1", "0">>)>>),
     <<"no estimate">>}

\* Model texts of the section calls, by section key.
SectionTexts ==
    [introduction |->
         {Fence \o <<"html", "\n">> \o Para(<<"Hello">>) \o <<"\n">> \o Fence,
          <<"Plain line one", "\n", "Plain line two">>},
     needs |-> {<<"Here is the result", ":", "\n">> \o Para(<<"Hello">>)},
     approach |-> {<<"Intro", "\n">> \o Para(<<"Hello">>)},
     strengths |-> {Fence},
     timeline |->
         {H3("Hello") \o <<"\n", "\n", "Plain line one", "\n", "\n">>
              \o Para(<<"Hi">>)},
     pricing |-> {Para(<<"Hi">>)},
     credentials |-> {<<"Hi", "\n">> \o Para(<<"Hello">>)},
     terms |-> {<<>>}]

-----------------------------------------------------------------------------
(* Actions.                                                                *)

Init ==
    /\ request \in Requests
    /\ state = InitialState
    /\ pc = "analyze_brief"
    /\ calls = <<>>
    /\ raised = "none"
    /\ delivered = <<>>

\* proposal_workflow.invoke runs one node: r is what the node returns for the
\* gateway response resp. An exception that escapes the node escapes invoke
\* and is caught by process_proposal_sync.
RunNode(node, r, resp) ==
    /\ calls' = IF r.called
                THEN Append(calls, [node |-> node, ok |-> resp.ok,
                                    text |-> resp.text])
                ELSE calls
    /\ IF r.exc # "none"
       THEN /\ raised' = r.exc
            /\ pc' = "except"
            /\ state' = state
       ELSE /\ raised' = raised
            /\ pc' = AfterNode(node)
            /\ state' = r.state
    /\ UNCHANGED <<request, delivered>>

AnalyzeBrief ==
    /\ pc = "analyze_brief"
    /\ \E resp \in Responses(AnalysisTexts) :
           RunNode("analyze_brief", analyze_brief(state, request, resp), resp)

GenerateScopeWith(texts) ==
    /\ pc = "generate_scope"
    /\ \E resp \in Responses(texts) :
           RunNode("generate_scope", generate_scope(state, request, resp), resp)

GenerateScope == GenerateScopeWith(ScopeTexts)

EstimateProjectWith(texts) ==
    /\ pc = "estimate_project"
    /\ \E resp \in Responses(texts) :
           RunNode("estimate_project",
                   estimate_project(state, request, resp), resp)

EstimateProject == EstimateProjectWith(EstimationTexts)

NoResponse == Response(FALSE, <<>>)

InitSections ==
    /\ pc = "init_sections"
    /\ RunNode("init_sections", init_sections(state, request, NoResponse),
               NoResponse)

GenerateIntroductionWith(texts) ==
    /\ pc = "generate_introduction"
    /\ \E resp \in Responses(texts) :
           RunNode("generate_introduction",
                   generate_introduction(state, request, resp), resp)

GenerateIntroduction == GenerateIntroductionWith(SectionTexts.introduction)

GenerateNeedsAssessment ==
    /\ pc = "generate_needs_assessment"
    /\ \E resp \in Responses(SectionTexts.needs) :
           RunNode("generate_needs_assessment",
                   generate_needs_assessment(state, request, resp), resp)

GenerateApproach ==
    /\ pc = "generate_approach"
    /\ \E resp \in Responses(SectionTexts.approach) :
           RunNode("generate_approach",
                   generate_approach(state, request, resp), resp)

GenerateStrengths ==
    /\ pc = "generate_strengths"
    /\ \E resp \in Responses(SectionTexts.strengths) :
           RunNode("generate_strengths",
                   generate_strengths(state, request, resp), resp)

GenerateTimeline ==
    /\ pc = "generate_timeline"
    /\ \E resp \in Responses(SectionTexts.timeline) :
           RunNode("generate_timeline",
                   generate_timeline(state, request, resp), resp)

GeneratePricing ==
    /\ pc = "generate_pricing"
    /\ \E resp \in Responses(SectionTexts.pricing) :
           RunNode("generate_pricing",
                   generate_pricing(state, request, resp), resp)

GenerateCredentials ==
    /\ pc = "generate_credentials"
    /\ \E resp \in Responses(SectionTexts.credentials) :
           RunNode("generate_credentials",
                   generate_credentials(state, request, resp), resp)

GenerateSocialProof ==
    /\ pc = "generate_social_proof"
    /\ RunNode("generate_social_proof",
               generate_social_proof(state, request, NoResponse), NoResponse)

GenerateTerms ==
    /\ pc = "generate_terms"
    /\ \E resp \in Responses(SectionTexts.terms) :
           RunNode("generate_terms", generate_terms(state, request, resp), resp)

AssembleProposal ==
    /\ pc = "assemble_proposal"
    /\ RunNode("assemble_proposal",
               assemble_proposal(state, request, NoResponse), NoResponse)

\* process_proposal_sync after invoke returned: the response is prepared and
\* passed to send_callback_sync; an exception of either is caught by the
\* except branch.
Respond ==
    /\ pc = "respond"
    /\ IF ResponseRaises(state)
       THEN /\ raised' = "ValidationError"
            /\ pc' = "except"
            /\ delivered' = delivered
       ELSE \E outcome \in CallbackOutcomes :
               /\ delivered' = Append(delivered, PrepareResponse(state))
               /\ IF outcome = "raise"
                  THEN raised' = "CallbackError" /\ pc' = "except"
                  ELSE raised' = raised /\ pc' = "done"
    /\ UNCHANGED <<request, state, calls>>

\* A variant of HandleException whose error response carries the scope and
\* the estimation of the record; C32 does not hold of it.
HandleException_partial ==
    /\ pc = "except"
    /\ \E outcome \in CallbackOutcomes :
           /\ delivered' = Append(delivered,
                                  [FailedResponse(<<raised>>)
                                       EXCEPT !.scope = state.scope,
                                              !.estimation = state.estimation])
           /\ pc' = IF outcome = "raise" THEN "died" ELSE "done"
    /\ UNCHANGED <<request, state, calls, raised>>

\* The except branch of process_proposal_sync: the error response is passed
\* to send_callback_sync; an exception of that call ends the thread.
HandleException ==
    /\ pc = "except"
    /\ \E outcome \in CallbackOutcomes :
           /\ delivered' = Append(delivered, FailedResponse(<<raised>>))
           /\ pc' = IF outcome = "raise" THEN "died" ELSE "done"
    /\ UNCHANGED <<request, state, calls, raised>>

Next ==
    \/ AnalyzeBrief
    \/ GenerateScope
    \/ EstimateProject
    \/ InitSections
    \/ GenerateIntroduction
    \/ GenerateNeedsAssessment
    \/ GenerateApproach
    \/ GenerateStrengths
    \/ GenerateTimeline
    \/ GeneratePricing
    \/ GenerateCredentials
    \/ GenerateSocialProof
    \/ GenerateTerms
    \/ AssembleProposal
    \/ Respond
    \/ HandleException

Spec == Init /\ [][Next]_vars

-----------------------------------------------------------------------------
(* Properties of a run of the pipeline.                                    *)

\* process_proposal_sync has returned, or its thread has died.
Finished == pc \in {"done", "died"}

\* The brief-analysis call (the first call of every run) is made and fails.
AnalysisFailed == calls # <<>> /\ ~calls[1].ok

\* The brief-analysis call is made and succeeds.
AnalysisSucceeded == calls # <<>> /\ calls[1].ok

\* The indexes of the gateway calls that failed.
FailedCalls == {k \in 1..Len(calls) : ~calls[k].ok}

\* The section key a generator node writes.
SectionKeyOf ==
    [generate_introduction |-> "introduction",
     generate_needs_assessment |-> "needs",
     generate_approach |-> "approach",
     generate_strengths |-> "strengths",
     generate_timeline |-> "timeline",
     generate_pricing |-> "pricing",
     generate_credentials |-> "credentials",
     generate_terms |-> "terms"]

\* The work record without its error field.
Protected(st) == [k \in DOMAIN st \ {"error"} |-> st[k]]

\* C1: once the error field is set, no step of the run changes
\* brief_analysis, scope, estimation, sections or proposal_html (the step of
\* init_sections included).
C1_ShortCircuit ==
    [][Truthy(state.error) => Protected(state') = Protected(state)]_vars

\* C2: when the brief-analysis call fails, every response passed to the
\* callback has status "failed", an error message, an empty scope, the
\* estimation (0, 0) and empty content; the first one carries the message of
\* the error field; and a finished run has delivered one.
C2_AnalysisFailureDelivered ==
    AnalysisFailed =>
        /\ \A k \in 1..Len(delivered) :
               /\ delivered[k].status = "failed"
               /\ Truthy(delivered[k].error)
               /\ delivered[k].scope = <<>>
               /\ delivered[k].estimation = ProposalEstimation(0, 0)
               /\ delivered[k].content = <<>>
        /\ delivered # <<>> =>
               delivered[1].error = AnalyzeError(calls[1].text)
        /\ Finished => delivered # <<>>

\* C2 witness: a finished run whose brief-analysis call failed and whose
\* failed response was sent.
C2_Witness ==
    /\ pc = "done" /\ AnalysisFailed /\ Len(delivered) = 1
    /\ delivered[1].status = "failed"

RECURSIVE OccursFrom(_, _, _)
\* The first index >= i at which frag occurs in doc, 0 if there is none.
OccursFrom(doc, frag, i) ==
    IF i + Len(frag) - 1 > Len(doc) THEN 0
    ELSE IF SubSeq(doc, i, i + Len(frag) - 1) = frag THEN i
    ELSE OccursFrom(doc, frag, i + 1)

RECURSIVE InOrderFrom(_, _, _)
\* The fragments occur in doc from index i on, one after the other.
InOrderFrom(doc, frags, i) ==
    IF frags = <<>> THEN TRUE
    ELSE LET at == OccursFrom(doc, Head(frags), i)
         IN  at # 0 /\ InOrderFrom(doc, Tail(frags), at + Len(Head(frags)))

\* The non-empty fragments of the record's sections, in canonical order.
NonEmptySections(st) ==
    IF "sections" \notin DOMAIN st THEN <<>>
    ELSE FilterNonEmpty([k \in 1..Len(CanonicalOrder) |->
                            SectionGet(st.sections, CanonicalOrder[k])])

\* C3: a finished run in which no gateway call failed delivered a first
\* response with status "completed" whose content holds every non-empty
\* section in canonical order.
C3_NoFailureCompletes ==
    (Finished /\ FailedCalls = {}) =>
        /\ delivered # <<>>
        /\ delivered[1].status = "completed"
        /\ InOrderFrom(delivered[1].content, NonEmptySections(state), 1)

\* The calls of the section generators.
SectionCalls == {k \in 1..Len(calls) : calls[k].node \in DOMAIN SectionKeyOf}

\* C4: a finished run in which exactly one gateway call failed, that of a
\* section generator, delivered a first response with status "completed", has
\* no error, holds the fallback fragment under that section's key and the
\* normalized text of its own call under every other called section's key.
C4_OneSectionFailure ==
    (Finished /\ Cardinality(FailedCalls) = 1 /\ FailedCalls \subseteq SectionCalls) =>
        /\ delivered # <<>>
        /\ delivered[1].status = "completed"
        /\ state.error = None
        /\ Cardinality(SectionCalls) = Cardinality(DOMAIN SectionKeyOf)
        /\ \A k \in SectionCalls :
               LET key == SectionKeyOf[calls[k].node]
               IN  /\ key \in DictKeys(state.sections)
                   /\ DictGet(state.sections, key) =
                          IF calls[k].ok THEN clean_html(calls[k].text)
                          ELSE Fallback(key, state, request)

\* C5: a finished run whose brief-analysis call succeeded delivered a first
\* response with status "completed".
C5_OnlyAnalysisFails ==
    (Finished /\ AnalysisSucceeded) =>
        delivered # <<>> /\ delivered[1].status = "completed"

-----------------------------------------------------------------------------
(* The scope stage alone, on model texts built from parts.                 *)

\* The longest JSON list of the scope texts.
MaxListLen == 2

\* The items of the lists: two titles and a number.
ScopeItemTexts == {Quoted("A"), Quoted("B"), <<"1">>}

ListText(items) == <<"[">> \o Join(items, <<",", " ">>) \o <<"]">>

\* JSON lists of up to MaxListLen items.
ListBodies ==
    {ListText(items) :
        items \in UNION {[1..n -> ScopeItemTexts] : n \in 0..MaxListLen}}

\* JSON values that are no list: a string, a number, null, an object.
NonListBodies ==
    {Quoted("A"), <<"1">>, <<"null">>, ObjectText(<<Member("A", <<"1">>)>>)}

\* Texts json.loads rejects: prose, an unterminated list, nothing.
MalformedBodies == {<<"not json">>, <<"[">> \o Quoted("A"), <<>>}

\* How the model wraps its answer: not at all, in a json fence, in a plain
\* fence, or between blank space.
Wrappings(body) ==
    {body,
     Fence \o <<"json", "\n">> \o body \o <<"\n">> \o Fence,
     Fence \o <<"\n">> \o body \o <<"\n">> \o Fence,
     <<" ">> \o body \o <<"\n">>}

ScopeCases ==
    UNION {Wrappings(body) :
              body \in ListBodies \union NonListBodies \union MalformedBodies}

\* The call record of a successful gateway call.
CallOf(node, text) == [node |-> node, ok |-> TRUE, text |-> text]

\* The work record after a successful brief analysis.
AnalyzedState(req, text) ==
    analyze_brief(InitialState, req, Response(TRUE, text)).state

\* A run that has passed brief analysis and is about to run generate_scope.
InitScope ==
    /\ request \in Requests
    /\ \E text \in AnalysisTexts :
           /\ state = AnalyzedState(request, text)
           /\ calls = <<CallOf("analyze_brief", text)>>
    /\ pc = "generate_scope"
    /\ raised = "none"
    /\ delivered = <<>>

NextScope == GenerateScopeWith(ScopeCases)

SpecScope == InitScope /\ [][NextScope]_vars

\* The scope stage has made its gateway call, and the call succeeded.
ScopeCallSucceeded ==
    Len(calls) >= 2 /\ calls[2].node = "generate_scope" /\ calls[2].ok

-----------------------------------------------------------------------------
(* The estimation stage alone, on model texts built from parts.            *)

\* The longest scope of the runs: one item more than the fallback needs to
\* reach its cap.
MaxScopeItems == 7

\* What the object says of the duration: nothing, a number, a negative
\* number, a numeric string, a string that is no number.
DurationMembers ==
    {<<>>,
     <<Member("duration_days", <<"1", "4">>)>>,
     <<Member("duration_days", <<"-", "4">>)>>,
     <<Member("duration_days", Quoted("7"))>>,
     <<Member("duration_days", Quoted("soon"))>>}

\* What the object says of the price: nothing, a number, zero.
PriceMembers ==
    {<<>>,
     <<Member("price", <<"5", "0", "0">>)>>,
     <<Member("price", <<"0">>)>>}

\* What else the object holds: nothing, a number, an object.
OtherMembers ==
    {<<>>,
     <<Member("note", <<"1">>)>>,
     <<Member("meta", ObjectText(<<Member("A", <<"1">>)>>))>>}

ObjectBodies ==
    {ObjectText(d \o p \o o) :
        d \in DurationMembers, p \in PriceMembers, o \in OtherMembers}

\* What the model writes before the object: nothing, prose, braces around a
\* word, an empty pair of braces, an opening brace.
Prefixes ==
    {<<>>, <<"Estimate", ":", " ">>, <<"{", "note", "}", " ">>,
     <<"{", "}", " ">>, <<"{", " ">>}

Suffixes == {<<>>, <<" ", "as requested">>}

EstimationCases ==
    {pre \o body \o suf :
        pre \in Prefixes, body \in ObjectBodies, suf \in Suffixes}
        \union {<<"no estimate">>, <<>>, <<"{", "1", "4">>}

\* The model text of a scope call that lists n titles.
TitlesText(n) == ListText([k \in 1..n |-> Quoted("A")])

\* A run that has passed brief analysis and the scope stage, with a scope of
\* up to MaxScopeItems titles, and is about to run estimate_project.
InitEstimation ==
    /\ request \in Requests
    /\ \E text \in AnalysisTexts, n \in 0..MaxScopeItems :
           /\ state = generate_scope(AnalyzedState(request, text), request,
                                     Response(TRUE, TitlesText(n))).state
           /\ calls = <<CallOf("analyze_brief", text),
                        CallOf("generate_scope", TitlesText(n))>>
    /\ pc = "estimate_project"
    /\ raised = "none"
    /\ delivered = <<>>

NextEstimation == EstimateProjectWith(EstimationCases)

SpecEstimation == InitEstimation /\ [][NextEstimation]_vars

\* The estimation stage has made its gateway call.
EstimationCalled ==
    Len(calls) >= 3 /\ calls[3].node = "estimate_project"

\* The estimation stage has made its gateway call, and the call succeeded.
EstimationCallSucceeded == EstimationCalled /\ calls[3].ok

\* The fallback estimation of the run.
RunFallback ==
    ProposalEstimation(Min(Len(state.scope) * 5, 30),
                       request.freelancer_profile.min_price)

\* data is a JSON object that holds an integer under key.
HasInteger(data, key) ==
    data.t = "dict" /\ key \in DOMAIN data.v /\ data.v[key].t = "int"

\* The JSON objects with an integer duration_days and an integer price that
\* occur in the text, from a "{" to a "}".
EstimateObjectsIn(t) ==
    LET cuts == {<<i, j>> \in (1..Len(t)) \X (1..Len(t)) :
                    i < j /\ t[i] = "{" /\ t[j] = "}"}
        parsed == {JsonLoads(SubSeq(t, c[1], c[2])) : c \in cuts}
    IN  {r.val : r \in {q \in parsed :
                           /\ q.ok
                           /\ HasInteger(q.val, KeyDuration)
                           /\ HasInteger(q.val, KeyPrice)}}

\* C7: after a successful estimation call, the estimation is the pair of
\* every JSON object with integer duration_days and price that the text
\* holds anywhere; and it is the fallback when the text holds no
\* object-shaped substring or the first one does not parse.
C7_EstimationExtraction ==
    EstimationCallSucceeded =>
        LET text == calls[3].text
            m == SearchObject(text)
        IN  /\ \A data \in EstimateObjectsIn(text) :
                   state.estimation =
                       ProposalEstimation(data.v[KeyDuration].v,
                                          data.v[KeyPrice].v)
            /\ (~m.found \/ ~JsonLoads(m.text).ok) =>
                   state.estimation = RunFallback

\* C7, amended: after a successful estimation call, the estimation is the
\* pair of the first object-shaped substring of the text (from the first "{"
\* that a character other than "}" follows to the next "}") when that
\* substring parses as a JSON object with integer duration_days and price;
\* and it is the fallback when the text holds no object-shaped substring or
\* the first one does not parse.
C7_EstimationExtractionAmended ==
    EstimationCallSucceeded =>
        LET text == calls[3].text
            m == SearchObject(text)
            parsed == JsonLoads(m.text)
        IN  /\ (/\ m.found /\ parsed.ok
                /\ HasInteger(parsed.val, KeyDuration)
                /\ HasInteger(parsed.val, KeyPrice)) =>
                   state.estimation =
                       ProposalEstimation(parsed.val.v[KeyDuration].v,
                                          parsed.val.v[KeyPrice].v)
            /\ (~m.found \/ ~parsed.ok) => state.estimation = RunFallback

\* C7 witness: an object that follows prose has given the estimation, which
\* is not the fallback.
C7_Witness ==
    /\ EstimationCallSucceeded
    /\ SearchObject(calls[3].text).found
    /\ calls[3].text[1] # "{"
    /\ EstimateObjectsIn(calls[3].text) # {}
    /\ state.estimation # RunFallback
    /\ state.estimation.price = 500

\* C8: after a successful estimation call whose first object-shaped
\* substring parses as a JSON object, an object with an integer price and no
\* duration_days gives (fallback duration, that price), an object with an
\* integer duration_days and no price gives (that duration, minimum price);
\* and a text without an object gives the fallback and no error.
C8_IndependentOverride ==
    EstimationCallSucceeded =>
        LET m == SearchObject(calls[3].text)
            parsed == JsonLoads(m.text)
            data == parsed.val
        IN  /\ (/\ m.found /\ parsed.ok /\ data.t = "dict"
                /\ HasInteger(data, KeyPrice)
                /\ KeyDuration \notin DOMAIN data.v) =>
                   state.estimation =
                       ProposalEstimation(RunFallback.duration_days,
                                          data.v[KeyPrice].v)
            /\ (/\ m.found /\ parsed.ok /\ data.t = "dict"
                /\ HasInteger(data, KeyDuration)
                /\ KeyPrice \notin DOMAIN data.v) =>
                   state.estimation =
                       ProposalEstimation(data.v[KeyDuration].v,
                                          RunFallback.price)
            /\ ~m.found =>
                   /\ state.estimation = RunFallback
                   /\ state.error = None
                   /\ raised = "none"

-----------------------------------------------------------------------------
(* The estimation of a run of the pipeline.                                *)

\* C9: in a run that passed brief analysis, once the estimation stage has
\* made its gateway call (whether the call succeeded or failed),
\* duration_days > 0 and price > 0.
C9_NonZeroEstimate ==
    (AnalysisSucceeded /\ EstimationCalled) =>
        state.estimation.duration_days > 0 /\ state.estimation.price > 0

\* C10: in every state of a run, duration_days >= 0 and price >= 0.
C10_NonNegativeEstimate ==
    state.estimation.duration_days >= 0 /\ state.estimation.price >= 0

-----------------------------------------------------------------------------
(* The assembly stage alone, on section mappings written in any order.     *)

\* The most sections a mapping holds.
MaxWritten == 3

\* What a mapping holds under a key: nothing, or a paragraph that names it.
SectionItems ==
    UNION {{[key |-> CanonicalOrder[k], value |-> v] :
               v \in {<<>>, Para(<<CanonicalOrder[k]>>)}} :
           k \in 1..Len(CanonicalOrder)}

\* The dicts of up to MaxWritten items, in every insertion order.
SectionDicts ==
    UNION {{d \in [1..n -> SectionItems] :
               \A i, j \in 1..n : d[i].key = d[j].key => i = j} :
           n \in 0..MaxWritten}

\* A run without error that is about to run assemble_proposal on a sections
\* dict of SectionDicts.
InitAssemble ==
    /\ request \in {r \in Requests : /\ r.language = "en"
                                     /\ r.freelancer_profile.min_price = 1}
    /\ \E d \in SectionDicts : state = SetKey(InitialState, "sections", d)
    /\ pc = "assemble_proposal"
    /\ calls = <<>>
    /\ raised = "none"
    /\ delivered = <<>>

NextAssemble == AssembleProposal

SpecAssemble == InitAssemble /\ [][NextAssemble]_vars

\* assemble_proposal has run and no error is set.
Assembled == pc = "respond" /\ ~Truthy(state.error)

\* The items of the dict that hold a non-empty fragment under key.
FragmentsUnder(sections, key) ==
    {i \in 1..Len(sections) :
        sections[i].key = key /\ sections[i].value # <<>>}

RECURSIVE DocumentUpTo(_, _)
\* The document of the first k canonical keys: the fragment of a key is
\* added after a blank line, and a key without a fragment adds nothing.
DocumentUpTo(sections, k) ==
    IF k = 0 THEN <<>>
    ELSE LET before == DocumentUpTo(sections, k - 1)
             at == FragmentsUnder(sections, CanonicalOrder[k])
         IN  IF at = {} THEN before
             ELSE LET fragment == sections[CHOOSE i \in at : TRUE].value
                  IN  IF before = <<>> THEN fragment
                      ELSE before \o <<"\n", "\n">> \o fragment

\* C11: when no error is set, the assembled document is the non-empty
\* fragments of the section mapping in canonical key order with a blank line
\* between two of them; an absent or empty section adds nothing.
C11_Assembly ==
    Assembled =>
        state.proposal_html =
            DocumentUpTo(state.sections, Len(CanonicalOrder))

\* C11 witness: a document assembled from two fragments, with an empty
\* section among the sections written and the other keys absent.
C11_Witness ==
    /\ Assembled
    /\ Len(state.sections) = 3
    /\ Cardinality({i \in 1..3 : state.sections[i].value # <<>>}) = 2
    /\ state.proposal_html # <<>>

\* The orders in which the items of the dict can have been written.
Reorderings(d) ==
    {[i \in 1..Len(d) |-> d[p[i]]] :
        p \in {q \in [1..Len(d) -> 1..Len(d)] :
                  \A i, j \in 1..Len(d) : q[i] = q[j] => i = j}}

\* C12: the assembled document is the one assembly gives for every order of
\* writing the same key-to-fragment mapping.
C12_OrderIndependent ==
    Assembled =>
        \A d \in Reorderings(state.sections) :
            AssembleHtml(d) = state.proposal_html

\* C12 witness: a document assembled from a dict whose first item is a
\* fragment of the last canonical key and whose second item is a fragment of
\* the first.
C12_Witness ==
    /\ Assembled
    /\ Len(state.sections) >= 2
    /\ state.sections[1] = [key |-> "terms", value |-> Para(<<"terms">>)]
    /\ state.sections[2] =
           [key |-> "introduction", value |-> Para(<<"introduction">>)]
    /\ state.proposal_html =
           Para(<<"introduction">>) \o <<"\n", "\n">> \o Para(<<"terms">>)

-----------------------------------------------------------------------------
(* The outcome of a run of the pipeline.                                   *)

\* C13: a finished run has delivered a first response whose status is
\* "failed" if and only if the error field of the record is set, and
\* "completed" if and only if it is not.
C13_OutcomeByErrorField ==
    Finished =>
        /\ delivered # <<>>
        /\ delivered[1].status \in {"failed", "completed"}
        /\ delivered[1].status = "failed" <=> Truthy(state.error)
        /\ delivered[1].status = "completed" <=> ~Truthy(state.error)

\* C14: a finished run has passed exactly one response to
\* send_callback_sync.
C14_CallbackOnce == Finished => Len(delivered) = 1

-----------------------------------------------------------------------------
(* Two requests processed at the same time.  generate_proposal starts one  *)
(* thread per request; each thread runs process_proposal_sync, which       *)
(* builds its own initial_state.  The variables hold one value per run.    *)

Runs == {"first", "second"}

\* The function add_node binds to the node.
NodeResult(node, st, req, resp) ==
    CASE node = "analyze_brief" -> analyze_brief(st, req, resp)
      [] node = "generate_scope" -> generate_scope(st, req, resp)
      [] node = "estimate_project" -> estimate_project(st, req, resp)
      [] node = "init_sections" -> init_sections(st, req, resp)
      [] node = "generate_introduction" -> generate_introduction(st, req, resp)
      [] node = "generate_needs_assessment" ->
             generate_needs_assessment(st, req, resp)
      [] node = "generate_approach" -> generate_approach(st, req, resp)
      [] node = "generate_strengths" -> generate_strengths(st, req, resp)
      [] node = "generate_timeline" -> generate_timeline(st, req, resp)
      [] node = "generate_pricing" -> generate_pricing(st, req, resp)
      [] node = "generate_credentials" -> generate_credentials(st, req, resp)
      [] node = "generate_social_proof" ->
             generate_social_proof(st, req, resp)
      [] node = "generate_terms" -> generate_terms(st, req, resp)
      [] node = "assemble_proposal" -> assemble_proposal(st, req, resp)

Nodes == {NodeOrder[k] : k \in 1..Len(NodeOrder)}

\* The gateway responses of the concurrent runs: the brief analysis and the
\* introduction succeed or fail, the other calls succeed with one text.
ConcurrentResponses(node) ==
    CASE node = "analyze_brief" -> Responses(AnalysisTexts)
      [] node = "generate_scope" ->
             {Response(TRUE, ListText(<<Quoted("A"), Quoted("B")>>))}
      [] node = "estimate_project" ->
             {Response(TRUE, ObjectText(<<Member("duration_days", <<"1", "4">>),
                                          Member("price", <<"5", "0", "0">>)>>))}
      [] node = "generate_introduction" ->
             Responses(SectionTexts.introduction)
      [] node \in DOMAIN SectionKeyOf \ {"generate_introduction"} ->
             {Response(TRUE, t) : t \in SectionTexts[SectionKeyOf[node]]}
      [] OTHER -> {NoResponse}

\* A variant of RecordOf in which the threads work on one record, that of
\* the first run; C15 does not hold of it.
RecordOf_shared(records, run) == records["first"]

\* The record the thread of the run works on: the initial_state dict its
\* own call of process_proposal_sync built.
RecordOf(records, run) == records[run]

InitConcurrent ==
    /\ request \in [Runs -> {r \in Requests :
                                r.freelancer_profile.min_price = 1}]
    /\ state = [run \in Runs |-> InitialState]
    /\ pc = [run \in Runs |-> "analyze_brief"]
    /\ calls = [run \in Runs |-> <<>>]
    /\ raised = [run \in Runs |-> "none"]
    /\ delivered = [run \in Runs |-> <<>>]

\* The thread of the run executes the next node of its invoke.
RunStage(run) ==
    /\ pc[run] \in Nodes
    /\ \E resp \in ConcurrentResponses(pc[run]) :
           LET r == NodeResult(pc[run], RecordOf(state, run), request[run],
                               resp)
           IN  /\ calls' = [calls EXCEPT ![run] =
                               IF r.called
                               THEN Append(@, [node |-> pc[run],
                                               ok |-> resp.ok,
                                               text |-> resp.text])
                               ELSE @]
               /\ IF r.exc # "none"
                  THEN /\ raised' = [raised EXCEPT ![run] = r.exc]
                       /\ pc' = [pc EXCEPT ![run] = "except"]
                       /\ state' = state
                  ELSE /\ raised' = raised
                       /\ pc' = [pc EXCEPT ![run] = AfterNode(pc[run])]
                       /\ state' = [state EXCEPT ![run] = r.state]
    /\ UNCHANGED <<request, delivered>>

\* The thread of the run prepares its response and sends it.
RunRespond(run) ==
    /\ pc[run] = "respond"
    /\ IF ResponseRaises(RecordOf(state, run))
       THEN /\ raised' = [raised EXCEPT ![run] = "ValidationError"]
            /\ pc' = [pc EXCEPT ![run] = "except"]
            /\ delivered' = delivered
       ELSE \E outcome \in CallbackOutcomes :
               /\ delivered' = [delivered EXCEPT ![run] =
                       Append(@, PrepareResponse(RecordOf(state, run)))]
               /\ IF outcome = "raise"
                  THEN /\ raised' = [raised EXCEPT ![run] = "CallbackError"]
                       /\ pc' = [pc EXCEPT ![run] = "except"]
                  ELSE /\ raised' = raised
                       /\ pc' = [pc EXCEPT ![run] = "done"]
    /\ UNCHANGED <<request, state, calls>>

\* The thread of the run is in its except branch.
RunHandleException(run) ==
    /\ pc[run] = "except"
    /\ \E outcome \in CallbackOutcomes :
           /\ delivered' = [delivered EXCEPT ![run] =
                   Append(@, FailedResponse(<<raised[run]>>))]
           /\ pc' = [pc EXCEPT ![run] =
                   IF outcome = "raise" THEN "died" ELSE "done"]
    /\ UNCHANGED <<request, state, calls, raised>>

NextConcurrent ==
    \E run \in Runs :
        \/ RunStage(run)
        \/ RunRespond(run)
        \/ RunHandleException(run)

SpecConcurrent == InitConcurrent /\ [][NextConcurrent]_vars

RECURSIVE SoloFrom(_, _, _, _)
\* A run executed alone from node k on the record st, given the gateway
\* responses cs of its calls in order: [state, exc, complete]; complete says
\* that the calls of the run are exactly those of cs.
SoloFrom(k, st, req, cs) ==
    IF k > Len(NodeOrder)
    THEN [state |-> st, exc |-> "none", complete |-> cs = <<>>]
    ELSE LET resp == IF cs = <<>> THEN NoResponse
                     ELSE Response(cs[1].ok, cs[1].text)
             r == NodeResult(NodeOrder[k], st, req, resp)
             rest == IF r.called THEN Tail(cs) ELSE cs
         IN  IF r.called /\ (cs = <<>> \/ cs[1].node # NodeOrder[k])
             THEN [state |-> st, exc |-> "none", complete |-> FALSE]
             ELSE IF r.exc # "none"
             THEN [state |-> st, exc |-> r.exc, complete |-> rest = <<>>]
             ELSE SoloFrom(k + 1, r.state, req, rest)

SoloRun(req, cs) == SoloFrom(1, InitialState, req, cs)

\* The first response the run executed alone passes to send_callback_sync.
SoloDelivery(solo) ==
    IF solo.exc # "none" THEN FailedResponse(<<solo.exc>>)
    ELSE IF ResponseRaises(solo.state)
    THEN FailedResponse(<<"ValidationError">>)
    ELSE PrepareResponse(solo.state)

\* C15: under every interleaving of two runs, the final record of each run
\* and the result it delivers are those of the run executed alone on the
\* same request with the same gateway responses.
C15_RunsIndependent ==
    \A run \in Runs :
        pc[run] \in {"done", "died"} =>
            LET solo == SoloRun(request[run], calls[run])
            IN  /\ solo.complete
                /\ state[run] = solo.state
                /\ delivered[run] # <<>>
                /\ delivered[run][1] = SoloDelivery(solo)
                /\ \A k \in 2..Len(delivered[run]) :
                       delivered[run][k] = FailedResponse(<<"CallbackError">>)

\* C15 witness: both runs have finished, the first with a failed brief
\* analysis, the second with a completed proposal in another language.
C15_Witness ==
    /\ pc["first"] = "done" /\ pc["second"] = "done"
    /\ request["first"].language # request["second"].language
    /\ Truthy(state["first"].error)
    /\ delivered["first"][1].status = "failed"
    /\ delivered["second"][1].status = "completed"
    /\ delivered["second"][1].content # <<>>

-----------------------------------------------------------------------------
(* The normalizer alone: generate_introduction on model texts built from   *)
(* parts, after a brief analysis, a scope and an estimation that succeeded. *)

\* The longest run of backticks of the texts.
MaxTicks == 5

\* The most lines of plain text between two blocks, or in a text without
\* tags.
MaxPlainLines == 3

\* The model texts given to the normalizer.
\*   fences:    a run of backticks, a language word or a newline, a body, a
\*              run of backticks;
\*   preambles: what the model writes before the first tag, then a block;
\*   lines:     up to MaxPlainLines lines of plain text, without a tag;
\*   between:   such lines between two blocks.
CleanCases ==
    LET TickRun(n) == [k \in 1..n |-> Backtick]
        Blocks == {Para(<<"Hello">>), H3("Intro"),
                   <<"<", "P", ">", "Hi", "<", "/", "P", ">">>}
        Preambles ==
            {<<>>, <<"Hi">>, <<"Yes">>, <<"Hi", " ", ":">>, <<"Intro">>,
             <<"Here is the result", ":">>, <<"Sure">>, <<"Output", ":">>,
             <<"Output">>, <<"Intro", "\n", "Plain line one">>,
             <<"x", " ", ">", " ", "x">>}
        PlainLines ==
            {<<>>, <<"Plain line one">>, <<" ", "Hi", " ">>, <<"x", ">">>}
        LineSeqs == UNION {[1..n -> PlainLines] : n \in 0..MaxPlainLines}
        fences ==
            {TickRun(a) \o w \o body \o TickRun(b) :
                a \in 0..MaxTicks, b \in 0..MaxTicks,
                w \in {<<>>, <<"\n">>, <<"html", "\n">>},
                body \in {<<>>, Para(<<"Hello">>), <<"Plain line one">>}}
            \union {TickRun(a) \o <<"html">> \o TickRun(b) \o body :
                       a \in 0..MaxTicks, b \in 0..MaxTicks,
                       body \in {<<>>, Para(<<"Hello">>)}}
        preambles ==
            {pre \o sep \o block :
                pre \in Preambles, block \in Blocks,
                sep \in {<<>>, <<"\n">>, <<" ", " ">>, <<"\n", "\n">>}}
        lines == {Join(ls, <<"\n">>) : ls \in LineSeqs}
        between ==
            {b1 \o <<"\n">> \o Join(ls, <<"\n">>) \o <<"\n">> \o b2 :
                b1 \in Blocks, b2 \in Blocks, ls \in LineSeqs}
    IN  fences \union preambles \union lines \union between

\* A run that is about to run generate_introduction.
InitClean ==
    /\ request \in {r \in Requests : /\ r.language = "en"
                                     /\ r.freelancer_profile.min_price = 1}
    /\ \E a \in AnalysisTexts :
           /\ calls = <<CallOf("analyze_brief", a),
                        CallOf("generate_scope", TitlesText(2)),
                        CallOf("estimate_project", <<"no estimate">>)>>
           /\ state = SoloRun(request, calls).state
    /\ pc = "generate_introduction"
    /\ raised = "none"
    /\ delivered = <<>>

NextClean == GenerateIntroductionWith(CleanCases)

SpecClean == InitClean /\ [][NextClean]_vars

\* generate_introduction has stored the normalized text of its call.
Cleaned ==
    /\ pc = "generate_needs_assessment"
    /\ calls[Len(calls)].node = "generate_introduction"
    /\ calls[Len(calls)].ok

\* The text the normalizer was given, and the text it returned.
CleanInput == calls[Len(calls)].text
CleanOutput == DictGet(state.sections, "introduction")

\* C16: normalizing the normalizer's output gives that output again.
C16_Idempotent == Cleaned => clean_html(CleanOutput) = CleanOutput

\* The text without fences, and the index in it of the first recognized tag.
Unfenced == Strip(SubFence(SubFenceWord(CleanInput, "html")))
TagAt == FirstTag(Unfenced)

\* The text before the first recognized tag, trimmed; the text from that
\* tag on.
PreambleText == Strip(SubSeq(Unfenced, 1, TagAt - 1))
TagFragment == SubSeq(Unfenced, TagAt, Len(Unfenced))

\* The preamble is empty, at most 3 characters long, or conversational.
Discarded ==
    \/ PreambleText = <<>>
    \/ TextLenUpTo4(PreambleText) <= 3
    \/ IsConversational(PreambleText)

RECURSIVE ParagraphsOf(_)
\* Each non-blank line, trimmed, in a paragraph tag, one per line.
ParagraphsOf(lines) ==
    IF lines = <<>> THEN <<>>
    ELSE LET line == Strip(Head(lines))
             rest == ParagraphsOf(Tail(lines))
         IN  IF line = <<>> THEN rest
             ELSE IF rest = <<>> THEN OpenP \o line \o CloseP
             ELSE OpenP \o line \o CloseP \o <<"\n">> \o rest

\* C17: when the text holds a recognized tag, the output is made from the
\* fragment that starts at the first such tag alone if the trimmed text
\* before it is empty, at most 3 characters long or conversational, and from
\* that text in a paragraph tag followed by the fragment otherwise (orphaned
\* lines are then wrapped, as C18 tells); when the text holds no recognized
\* tag, the output is each non-blank line, trimmed, in a paragraph tag.
C17_Preamble ==
    Cleaned =>
        IF TagAt # 0
        THEN IF Discarded
             THEN CleanOutput = Strip(WrapOrphans(TagFragment))
             ELSE CleanOutput =
                      Strip(WrapOrphans(OpenP \o PreambleText \o CloseP
                                            \o <<"\n">> \o TagFragment))
        ELSE CleanOutput = ParagraphsOf(SplitLines(Unfenced))

\* C17 witness: a preamble of two lines was kept in a paragraph tag before
\* the fragment.
C17_Witness ==
    /\ Cleaned
    /\ TagAt # 0 /\ ~Discarded
    /\ Len(SplitLines(PreambleText)) = 2
    /\ SubSeq(CleanOutput, 1, 3 + Len(PreambleText)) = OpenP \o PreambleText

\* The text before the first recognized tag as it stands, not trimmed.
RawPreamble == SubSeq(Unfenced, 1, TagAt - 1)

RECURSIVE RawParagraphsOf(_)
\* Each non-blank line as it stands, in a paragraph tag, one per line.
RawParagraphsOf(lines) ==
    IF lines = <<>> THEN <<>>
    ELSE LET line == Head(lines)
             rest == RawParagraphsOf(Tail(lines))
         IN  IF Strip(line) = <<>> THEN rest
             ELSE IF rest = <<>> THEN OpenP \o line \o CloseP
             ELSE OpenP \o line \o CloseP \o <<"\n">> \o rest

\* C17 as stated, on the text as it stands: the text before the first
\* recognized tag is discarded if it is empty, at most 3 characters long or
\* conversational, and is put in a paragraph tag before the fragment
\* otherwise; without a tag each non-blank line is put in a paragraph tag.
C17_Untrimmed ==
    Cleaned =>
        IF TagAt # 0
        THEN IF \/ RawPreamble = <<>>
                \/ TextLenUpTo4(RawPreamble) <= 3
                \/ IsConversational(RawPreamble)
             THEN CleanOutput = Strip(WrapOrphans(TagFragment))
             ELSE CleanOutput =
                      Strip(WrapOrphans(OpenP \o RawPreamble \o CloseP
                                            \o <<"\n">> \o TagFragment))
        ELSE CleanOutput = RawParagraphsOf(SplitLines(Unfenced))

\* A line holds plain text only: it is not blank and holds no "<".
IsPlainLine(line) ==
    Strip(line) # <<>> /\ \A k \in 1..Len(line) : line[k] # "<"

\* C18: no line of the output that lies after a line ending a tag and before
\* a line starting a tag is plain text.
C18_NoRawText ==
    Cleaned =>
        LET lines == SplitLines(CleanOutput)
            n == Len(lines)
            endsTag(j) ==
                LET l == Strip(lines[j]) IN l # <<>> /\ l[Len(l)] = ">"
            startsTag(j) ==
                LET l == Strip(lines[j]) IN l # <<>> /\ l[1] = "<"
        IN  \A k \in 1..n :
                (/\ \E j \in 1..(k - 1) : endsTag(j)
                 /\ \E j \in (k + 1)..n : startsTag(j))
                    => ~IsPlainLine(lines[k])

\* Index i of the text starts three consecutive backticks.
HasFence(t) ==
    \E i \in 1..(Len(t) - 2) :
        t[i] = Backtick /\ t[i + 1] = Backtick /\ t[i + 2] = Backtick

\* C19: the output of the normalizer holds no three consecutive backticks.
C19_NoFence == Cleaned => ~HasFence(CleanOutput)

\* C19 witness: a text with a run of more than three backticks was
\* normalized, and backticks remain in the output.
C19_Witness ==
    /\ Cleaned
    /\ Len(CleanInput) >= 4
    /\ \A k \in 1..4 : CleanInput[k] = Backtick
    /\ \E k \in 1..Len(CleanOutput) : CleanOutput[k] = Backtick
    /\ ~HasFence(CleanOutput)

-----------------------------------------------------------------------------
(* The chain of the graph.                                                 *)

\* The stage nodes of the chain: every node of the graph but init_sections,
\* in the order of the edges.
StageNodes ==
    <<"analyze_brief", "generate_scope", "estimate_project",
      "generate_introduction", "generate_needs_assessment", "generate_approach",
      "generate_strengths", "generate_timeline", "generate_pricing",
      "generate_credentials", "generate_social_proof", "generate_terms",
      "assemble_proposal">>

\* C20: the graph is one chain, and a step that runs a stage node passes
\* control to the node the chain names next (the response preparation after
\* the last), whatever the stage returned: no stage is skipped, repeated or
\* chosen by a condition, also once the error field is set.
C20_StraightLine ==
    [][\A k \in 1..Len(StageNodes) :
           pc = StageNodes[k] =>
               pc' = IF k = Len(StageNodes) THEN "respond"
                     ELSE IF k = 3 THEN "init_sections"
                     ELSE StageNodes[k + 1]]_vars

-----------------------------------------------------------------------------
(* Gateway calls of a run.                                                 *)

\* The nodes that hold no llm.invoke.
SilentNodes == {"init_sections", "generate_social_proof", "assemble_proposal"}

\* C21: in every state of a run no node has made two gateway calls (so no
\* call, failed or not, was repeated), the nodes without a gateway call have
\* made none, and while the error field is set the failed brief-analysis call
\* is the only call of the run.
C21_BoundedCalls ==
    /\ \A i, j \in 1..Len(calls) : calls[i].node = calls[j].node => i = j
    /\ \A i \in 1..Len(calls) : calls[i].node \notin SilentNodes
    /\ Truthy(state.error) =>
           /\ Len(calls) = 1
           /\ calls[1].node = "analyze_brief" /\ ~calls[1].ok
    /\ AnalysisFailed => Len(calls) = 1

\* C21 witness: a run has made the calls of all eleven calling nodes, one of
\* them failed, and the assembly has run.
C21_Witness ==
    /\ pc = "respond"
    /\ Len(calls) = Len(NodeOrder) - Cardinality(SilentNodes)
    /\ FailedCalls # {}

-----------------------------------------------------------------------------
(* The fields of the work record along a run.                              *)

\* C22: from the return of analyze_brief on, if its gateway call succeeded
\* the brief analysis is the text of that call as it stands and the error
\* field is unset; if the call failed the error field is the message "Failed
\* to analyze brief: " followed by the text of the exception, hence not empty,
\* and brief_analysis, scope, estimation and proposal_html have the values
\* of the initial state.
C22_AnalyzeBrief ==
    /\ AnalysisSucceeded =>
           /\ state.brief_analysis = calls[1].text
           /\ state.error = None
    /\ AnalysisFailed =>
           /\ state.error = AnalyzeError(calls[1].text)
           /\ Truthy(state.error)
           /\ state.brief_analysis = InitialState.brief_analysis
           /\ state.scope = InitialState.scope
           /\ state.estimation = InitialState.estimation
           /\ state.proposal_html = InitialState.proposal_html

\* C22 witness: the brief-analysis call failed and the run has gone through
\* the whole chain.
C22_Witness ==
    /\ pc = "respond" /\ AnalysisFailed
    /\ state.error = AnalyzeError(GatewayError)
    /\ state.brief_analysis = <<>>

\* The scope stage has made its gateway call.
ScopeCalled == Len(calls) >= 2 /\ calls[2].node = "generate_scope"

\* The model text of the scope call parses into a list of strings.
ScopeShaped(text) ==
    LET parsed == JsonLoads(ScopeContent(text))
    IN  /\ parsed.ok /\ parsed.val.t = "list"
        /\ \A k \in 1..Len(parsed.val.v) : parsed.val.v[k].t = "str"

\* The model text of the estimation call holds an object with the two
\* numbers.
EstimationShaped(text) ==
    LET m == SearchObject(text)
    IN  /\ m.found /\ JsonLoads(m.text).ok
        /\ EstimationOfObject(JsonLoads(m.text).val).ok

\* C23: once the scope call has failed, or has returned a text that does not
\* parse into a list of strings, the scope is the default list of the
\* request's language, the error field is unset and the stage that follows has
\* not raised; once the estimation call has failed, or has returned a text
\* without a parsable object, the estimation is the fallback pair and the
\* error field is unset.
C23_FailuresAbsorbed ==
    /\ (ScopeCalled /\ (~calls[2].ok \/ ~ScopeShaped(calls[2].text))) =>
           /\ state.scope = DefaultScope(request.language)
           /\ state.error = None
           /\ raised # "TypeError"
    /\ (EstimationCalled
            /\ (~calls[3].ok \/ ~EstimationShaped(calls[3].text))) =>
           /\ state.estimation = RunFallback
           /\ state.error = None

-----------------------------------------------------------------------------
(* The fallback fragments of the section generators.                       *)

\* The other language of LANGUAGE_CONFIGS.
OtherLanguage(lang) == IF lang = "en" THEN "id" ELSE "en"

\* C24: the fragment stored for a section whose gateway call failed is the
\* same whatever the estimation of the record is (it is the one the stage
\* would store on the estimation of the initial state), and it is not the one
\* the stage would store for the other language.
C24_FixedFallback ==
    \A k \in SectionCalls :
        LET key == SectionKeyOf[calls[k].node]
        IN  (/\ ~calls[k].ok
             /\ "sections" \in DOMAIN state
             /\ key \in DictKeys(state.sections)
             /\ request.language \in DOMAIN LANGUAGE_CONFIGS) =>
                /\ DictGet(state.sections, key) =
                       Fallback(key, InitialState, request)
                /\ DictGet(state.sections, key) #
                       Fallback(key, state,
                                [request EXCEPT
                                     !.language = OtherLanguage(@)])

\* The keys of the sections whose generators call the gateway, in canonical
\* order.
CalledSections ==
    SelectSeq(CanonicalOrder, LAMBDA key : key # "social_proof")

\* The non-empty fragments the record holds under the keys of CalledSections.
CalledFragments ==
    FilterNonEmpty([k \in 1..Len(CalledSections) |->
                       SectionGet(state.sections, CalledSections[k])])

\* C25: no gateway call is ever made by generate_social_proof; once it has
\* run without the error field set, the record holds the empty text under
\* "social_proof"; and the document of a completed response is the join of
\* the non-empty fragments of the other sections, at most eight.
C25_NoSocialProof ==
    /\ \A k \in 1..Len(calls) : calls[k].node # "generate_social_proof"
    /\ (pc \in {"generate_terms", "assemble_proposal", "respond"}
            /\ ~Truthy(state.error)) =>
           /\ "social_proof" \in DictKeys(state.sections)
           /\ DictGet(state.sections, "social_proof") = <<>>
    /\ (delivered # <<>> /\ delivered[1].status = "completed") =>
           /\ delivered[1].content = Join(CalledFragments, <<"\n", "\n">>)
           /\ Len(CalledFragments) <= 8

\* C25 witness: a completed response whose document holds eight sections.
C25_Witness ==
    /\ pc = "done" /\ Len(delivered) = 1
    /\ delivered[1].status = "completed"
    /\ Len(CalledFragments) = 8

-----------------------------------------------------------------------------
(* The snapshot sink.  save_step writes one file per stage; the write may   *)
(* fail.  The gateway calls of a run are logged with the outcome of the     *)
(* write that followed them.                                                *)

\* A variant of save_step that lets the exception of a failed write escape;
\* C26 does not hold of it.
save_step_raising(written) == IF written THEN "none" ELSE "OSError"

\* The exception that escapes save_step ("none" if it returns): its try
\* block catches every Exception of the write, so none escapes.
save_step(written) == "none"

\* Where the node, run on the record st with the gateway response resp,
\* calls save_step: inside its try block ("try"), outside of one or in its
\* except branch ("open"), or not at all ("no").
SaveSite(node, st, resp) ==
    IF node \in {"init_sections", "generate_social_proof"} THEN "no"
    ELSE IF node = "analyze_brief" THEN (IF resp.ok THEN "try" ELSE "no")
    ELSE IF Truthy(st.error) THEN "no"
    ELSE IF node = "assemble_proposal" THEN "open"
    ELSE IF node = "generate_scope"
    THEN (IF resp.ok /\ JsonLoads(ScopeContent(resp.text)).ok
          THEN "try" ELSE "open")
    ELSE IF node = "estimate_project"
    THEN (IF resp.ok /\ (~SearchObject(resp.text).found
                             \/ EstimationShaped(resp.text))
          THEN "try" ELSE "no")
    ELSE (IF resp.ok THEN "try" ELSE "no")

\* What the node returns when its snapshot write has the outcome written. An
\* exception that escapes save_step inside the try block is caught by the
\* except branch of the node, which then runs on the record as the try block
\* left it; elsewhere it escapes the node.
StageSaved(node, st, req, resp, written) ==
    LET exc == save_step(written)
        \* The except branch of the node, run on the record left by its try
        \* block.
        Caught(left) == NodeResult(node, left, req, Response(FALSE, <<exc>>))
        Saved(r, site) ==
            IF r.exc # "none" \/ site = "no" \/ exc = "none" THEN r
            ELSE IF site = "try" /\ node # "generate_scope"
            THEN Returned(Caught(r.state).state, TRUE)
            ELSE IF site = "try" THEN Raised(Caught(r.state).state, TRUE, exc)
            ELSE Raised(r.state, r.called, exc)
    IN  CHOOSE saved \in {Saved(r, site) :
                              r \in {NodeResult(node, st, req, resp)},
                              site \in {SaveSite(node, st, resp)}} : TRUE

InitSink ==
    /\ request \in {r \in Requests : /\ r.language \in {"en", "id"}
                                     /\ r.freelancer_profile.min_price = 1}
    /\ state = InitialState
    /\ pc = "analyze_brief"
    /\ calls = <<>>
    /\ raised = "none"
    /\ delivered = <<>>

\* proposal_workflow.invoke runs one node, whose snapshot write succeeds or
\* fails.
RunSaved ==
    /\ pc \in Nodes
    /\ \E resp \in ConcurrentResponses(pc), written \in BOOLEAN :
           \E r \in {StageSaved(pc, state, request, resp, written)} :
               /\ written =>
                      /\ NodeResult(pc, state, request, resp).exc = "none"
                      /\ SaveSite(pc, state, resp) # "no"
               /\ calls' = IF r.called
                           THEN Append(calls, [node |-> pc, ok |-> resp.ok,
                                               text |-> resp.text,
                                               written |-> written])
                           ELSE calls
               /\ IF r.exc # "none"
                  THEN /\ raised' = r.exc
                       /\ pc' = "except"
                       /\ state' = state
                  ELSE /\ raised' = raised
                       /\ pc' = AfterNode(pc)
                       /\ state' = r.state
    /\ UNCHANGED <<request, delivered>>

NextSink == RunSaved

SpecSink == InitSink /\ [][NextSink]_vars

\* C26: whatever node is to run and whatever the gateway answers, the node
\* returns the same with a failed snapshot write as with a successful one;
\* no exception has ended the run, the error field is set only after a failed
\* brief analysis, and the record at the end of the chain is the one of the
\* run executed with the same gateway responses and no write failing.
C26_SinkNeverFatal ==
    /\ pc \in Nodes =>
           \A resp \in ConcurrentResponses(pc) :
               StageSaved(pc, state, request, resp, FALSE) =
                   StageSaved(pc, state, request, resp, TRUE)
    /\ raised = "none" /\ pc # "except"
    /\ Truthy(state.error) => AnalysisFailed
    /\ pc = "respond" =>
           /\ SoloRun(request, calls).complete
           /\ state = SoloRun(request, calls).state

\* C26 witness: the write that followed a successful introduction call
\* failed, the record holds the normalized text of that call, and the chain
\* has run to its end.
C26_Witness ==
    /\ pc = "respond"
    /\ \E k \in 1..Len(calls) :
           /\ calls[k].node = "generate_introduction"
           /\ calls[k].ok /\ ~calls[k].written
           /\ DictGet(state.sections, "introduction") =
                  clean_html(calls[k].text)
           /\ DictGet(state.sections, "introduction") #
                  Fallback("introduction", state, request)

\* The nine section generators, and the key each of them writes.
GeneratorNodes == DOMAIN SectionKeyOf \union {"generate_social_proof"}

OwnKey(node) ==
    IF node = "generate_social_proof" THEN "social_proof"
    ELSE SectionKeyOf[node]

\* A step of a section generator leaves brief_analysis, scope, estimation,
\* proposal_html, the error field and the request as they are, adds no key to
\* the section mapping but its own, and leaves every other entry of the
\* mapping as it is.
SectionFrameStep ==
    pc \in GeneratorNodes =>
        /\ state'.brief_analysis = state.brief_analysis
        /\ state'.scope = state.scope
        /\ state'.estimation = state.estimation
        /\ state'.proposal_html = state.proposal_html
        /\ state'.error = state.error
        /\ request' = request
        /\ DictKeys(state'.sections) \subseteq
               DictKeys(state.sections) \union {OwnKey(pc)}
        /\ \A key \in DictKeys(state.sections) \ {OwnKey(pc)} :
               /\ key \in DictKeys(state'.sections)
               /\ DictGet(state'.sections, key) =
                      DictGet(state.sections, key)

\* C27: every step of a section generator, on the success path and on the
\* fallback path alike, writes nothing but its own key of the section
\* mapping.
C27_SectionFrame == [][SectionFrameStep]_vars

\* C27 witness: all nine generators have run, one on its fallback path and
\* one on its success path, and the record holds an entry for each.
C27_Witness ==
    /\ pc = "assemble_proposal"
    /\ \E i, j \in SectionCalls : calls[i].ok /\ ~calls[j].ok
    /\ DictKeys(state.sections) =
           {CanonicalOrder[k] : k \in 1..Len(CanonicalOrder)}
    /\ state.scope # <<>> /\ state.brief_analysis # <<>>

\* A step changes the scope only if it is one of generate_scope, and the
\* estimation only if it is one of estimate_project.
WriterStep ==
    /\ state'.scope # state.scope => pc = "generate_scope"
    /\ state'.estimation # state.estimation => pc = "estimate_project"

\* C28: while a node of the chain is still to run the document is empty,
\* while analyze_brief is still to run the brief analysis is empty, and no
\* step but one of the scope stage changes the scope, no step but one of the
\* estimation stage the estimation.
C28_EmptyUntilWritten ==
    /\ [](pc \in Nodes => state.proposal_html = <<>>)
    /\ [](pc = "analyze_brief" => state.brief_analysis = <<>>)
    /\ [][WriterStep]_vars

\* C28 witness: the chain has run to its end and the record holds a brief
\* analysis, a scope, an estimation and a document.
C28_Witness ==
    /\ pc = "respond"
    /\ state.proposal_html # <<>> /\ state.brief_analysis # <<>>
    /\ state.scope # <<>> /\ state.estimation # InitialState.estimation

-----------------------------------------------------------------------------
(* The request endpoint.  Two requests are posted; generate_proposal starts *)
(* a thread for a request and returns "accepted".  A gateway call that      *)
(* never returns leaves its thread at its node for ever.                    *)

\* A variant of ThreadStarts for an endpoint that runs the pipeline itself:
\* it serves a request only while no pipeline is running; C29 does not hold
\* of it.
ThreadStarts_inline(pcs, run) ==
    \A other \in Runs \ {run} :
        pcs[other] \notin Nodes \union {"respond", "except"}

\* Whether generate_proposal can start the thread of the request, given the
\* positions of all threads: threading.Thread(...).start() waits for none.
ThreadStarts(pcs, run) == TRUE

InitAccept ==
    /\ request \in [Runs -> {r \in Requests :
                                /\ r.language = "en"
                                /\ r.freelancer_profile.min_price = 1}]
    /\ state = [run \in Runs |-> InitialState]
    /\ pc = [run \in Runs |-> "posted"]
    /\ calls = [run \in Runs |-> <<>>]
    /\ raised = [run \in Runs |-> "none"]
    /\ delivered = [run \in Runs |-> <<>>]

\* generate_proposal: the thread of the request is started and the request
\* is acknowledged with "accepted".
GenerateProposal(run) ==
    /\ pc[run] = "posted"
    /\ ThreadStarts(pc, run)
    /\ pc' = [pc EXCEPT ![run] = "analyze_brief"]
    /\ UNCHANGED <<request, state, calls, raised, delivered>>

\* The steps of the request: its acceptance and the steps of its thread.
StepOf(run) ==
    \/ GenerateProposal(run)
    \/ RunStage(run)
    \/ RunRespond(run)
    \/ RunHandleException(run)

NextAccept == \E run \in Runs : StepOf(run)

SpecAccept == InitAccept /\ [][NextAccept]_vars

\* A step of the request is possible: its thread can be started, or its
\* thread has not ended. This is ENABLED StepOf(run), written out.
CanStep(run) ==
    IF pc[run] = "posted" THEN ThreadStarts(pc, run)
    ELSE pc[run] \notin {"done", "died"}

\* WF_vars(StepOf(run)), with its enabling condition written out: steps of
\* the request that stay possible are taken.
FairSteps(run) == []<>(~CanStep(run)) \/ []<><<StepOf(run)>>_vars

\* The endpoint and the thread of the second request are scheduled, and each
\* gateway call of the second request returns or fails; nothing is assumed of
\* the first request, whose gateway calls may never return.
SpecAcceptFair == SpecAccept /\ FairSteps("second")

\* generate_proposal has returned "accepted" for the request.
Accepted(run) == pc[run] # "posted"

\* C29: whenever the second request is posted while the thread of the first
\* is at a node of its pipeline, where it may stay for ever, the second
\* request is accepted and processed until its result is passed to the
\* callback.
C29_AcceptanceNeverWaits ==
    (pc["second"] = "posted" /\ pc["first"] \in Nodes)
        ~> (Accepted("second") /\ delivered["second"] # <<>>)

\* C29 witness: the second request has been processed to its callback while
\* the thread of the first still waits for its first gateway call.
C29_Witness ==
    /\ pc["first"] = "analyze_brief" /\ calls["first"] = <<>>
    /\ pc["second"] = "done" /\ Len(delivered["second"]) = 1
    /\ delivered["second"][1].status = "completed"

-----------------------------------------------------------------------------
(* Termination of a run.                                                   *)

\* A step of the run is possible: process_proposal_sync has not returned and
\* its thread has not died. This is ENABLED Next, written out.
Running == ~Finished

\* WF_vars(Next), with its enabling condition written out: the thread of the
\* run is scheduled, each gateway call returns or fails, and so does each
\* call of the callback.
FairRun == []<>(~Running) \/ []<><<Next>>_vars

SpecFair == Spec /\ FairRun

\* A step from a node of the chain to a node of the chain goes to the node
\* that follows it: no node is run twice.
ChainStep ==
    (pc \in Nodes /\ pc' \in Nodes) => NodeIndex(pc') = NodeIndex(pc) + 1

\* C30: every run ends, with a first result of status "completed" or
\* "failed" passed to the callback, and on its way it runs no node of the
\* chain twice.
C30_Termination ==
    /\ <>(/\ Finished
          /\ delivered # <<>>
          /\ delivered[1].status \in {"completed", "failed"})
    /\ [][ChainStep]_vars

\* C30 witness: a run has ended after the calls of all eleven calling nodes,
\* and its completed result was passed to the callback once.
C30_Witness ==
    /\ pc = "done" /\ raised = "none"
    /\ Len(calls) = 11 /\ calls[11].node = "generate_terms"
    /\ Len(delivered) = 1 /\ delivered[1].status = "completed"

-----------------------------------------------------------------------------
(* The life of the section mapping.                                        *)

\* The nine keys of the section mapping.
SectionKeys ==
    {"introduction", "needs", "approach", "strengths", "timeline", "pricing",
     "credentials", "social_proof", "terms"}

\* The run has reached the end of the chain with no error in its record and
\* no exception.
EndedWithoutError ==
    /\ pc \in {"respond", "done"}
    /\ raised = "none"
    /\ ~Truthy(state.error)

\* C31: the record holds no section mapping up to init_sections, an empty
\* one when the first section generator is to run and some mapping when any
\* section generator is to run; no step of a section generator ends with a
\* KeyError of a missing mapping; and at the end of a run without an error
\* the mapping holds the nine section keys and no other, each once.
C31_SectionMapping ==
    /\ pc \in {"analyze_brief", "generate_scope", "estimate_project",
               "init_sections"} => "sections" \notin DOMAIN state
    /\ pc = "generate_introduction" =>
           "sections" \in DOMAIN state /\ state.sections = <<>>
    /\ pc \in GeneratorNodes => "sections" \in DOMAIN state
    /\ (calls # <<>> /\ calls[Len(calls)].node \in GeneratorNodes
            /\ raised = "KeyError") =>
           request.language \notin DOMAIN LANGUAGE_CONFIGS
    /\ EndedWithoutError =>
           /\ DictKeys(state.sections) = SectionKeys
           /\ Len(state.sections) = Cardinality(SectionKeys)

\* C31 witness: a run without an error has ended with the result delivered,
\* its record holding the nine sections.
C31_Witness ==
    /\ pc = "done" /\ EndedWithoutError
    /\ Len(delivered) = 1
    /\ Len(state.sections) = 9
    /\ DictKeys(state.sections) = SectionKeys

-----------------------------------------------------------------------------
(* The payload of the results passed to the callback.                      *)

\* The result carries what a failed result carries: no scope item, the
\* estimation (0, 0), no content, and an error message.
FailedPayload(result) ==
    /\ result.scope = <<>>
    /\ result.estimation = [duration_days |-> 0, price |-> 0]
    /\ result.content = <<>>
    /\ result.error # None /\ result.error # <<>>

\* The result carries what a completed result carries: no error, and the
\* scope, the estimation and the document of the record.
CompletedPayload(result) ==
    /\ result.error = None
    /\ result.scope = state.scope
    /\ result.estimation = state.estimation
    /\ result.content = state.proposal_html

\* C32: every result passed to the callback has the status "failed" or
\* "completed"; a failed one carries an empty scope, the estimation (0, 0),
\* empty content and an error message, whatever the record holds; a
\* completed one carries no error and the scope, estimation and document of
\* the record.
C32_ResultPayload ==
    \A k \in 1..Len(delivered) :
        /\ delivered[k].status \in {"failed", "completed"}
        /\ delivered[k].status = "failed" => FailedPayload(delivered[k])
        /\ delivered[k].status = "completed" => CompletedPayload(delivered[k])

\* C32 witness: a run whose record held a scope and an estimation when a
\* section generator raised has passed its failed result to the callback.
C32_Witness ==
    /\ pc = "done" /\ raised = "KeyError"
    /\ state.scope # <<>> /\ state.estimation.price > 0
    /\ Len(delivered) = 1 /\ delivered[1].status = "failed"
    /\ delivered[1].scope = <<>>

====
